---- MODULE Spec2Model ----
(***************************************************************************)
(* Orchestration of one conversation of the chat client: send_message,     *)
(* BaseInstance.prepare_chat / generate_message / use_tools /              *)
(* generate_response and NanoGPT.generate_response, with the tool backends *)
(* of widgets/tools/tools.py as far as use_tools depends on them.          *)
(***************************************************************************)
EXTENDS Integers, Sequences, FiniteSets, TLC

\* -------------------------------------------------------------- bounds
MaxTurns == 2
MaxCalls == 2
MaxChunks == 2
MaxMsgs == 2
MaxProps == 2
MaxDescribes == 3
MaxModels == 2
MaxModelCalls == 3

Turns == 1..MaxTurns

\* ------------------------------------------------- python values in use
\* A value that is either None or a str (the summary a tool returns).
PyNone == [tag |-> "none", s |-> ""]

PyStrOf(x) == [tag |-> "str", s |-> x]

\* str(v)
PyStr(v) == IF v.tag = "none" THEN "None" ELSE v.s

\* bool(v)
PyBool(v) == v.tag = "str" /\ v.s # ""

Reverse(s) == [i \in 1..Len(s) |-> s[Len(s) + 1 - i]]

RemoveAt(s, i) == [j \in 1..(Len(s) - 1) |-> IF j < i THEN s[j] ELSE s[j + 1]]

\* ------------------------------------------------------------- messages
\* A content block of a message: {"type": "text", "text": ...} or an image.
TextBlock(x) == [type |-> "text", text |-> x]

ImageBlock == [type |-> "image_url", text |-> ""]

\* A message content is a list of blocks or a plain string.
ListContent(bs) == [kind |-> "list", blocks |-> bs, text |-> ""]

StrContent(x) == [kind |-> "str", blocks |-> <<>>, text |-> x]

Msg(r, c) == [role |-> r, content |-> c, tool_call_id |-> ""]

ToolMsg(id, x) == [role |-> "tool", content |-> StrContent(x), tool_call_id |-> id]

\* ------------------------------------------------------------ instance
Limitations == {"no-system-messages", "text-only", "no-seed", "use_max_completion_tokens"}

\* ---------------------------------------------------------------- tools
\* The tool classes of tools.py that have a run method, by name.
Registry ==
    {"web_search", "youtube_transcript", "web_scrape", "check_balance",
     "run_command", "background_remover", "generate_image"}

\* Tools whose run starts with arguments.get(...): arguments is the raw
\* JSON string of the call, a str has no get, the call raises.
ReadsArguments ==
    {"web_search", "youtube_transcript", "web_scrape", "run_command", "generate_image"}

\* call.function.arguments as the provider sends it: a JSON-encoded string.
ArgStrings == {"{}", "{\"q\": \"x\"}", "{\"q\": "}

\* json.loads: ok is FALSE when it raises; len is the length of the mapping.
JsonLoads(raw) ==
    CASE raw = "{}" -> [ok |-> TRUE, len |-> 0]
      [] raw = "{\"q\": \"x\"}" -> [ok |-> TRUE, len |-> 1]
      [] OTHER -> [ok |-> FALSE, len |-> 0]

\* What a tool's run did; failed says that its backend request failed.
Outcome(r, sum, det, rev) ==
    [raised |-> r, summary |-> sum, detail |-> det, reversed |-> rev, failed |-> FALSE]

\* How the check-balance request may go: a JSON with a balance, a JSON
\* without one (an error body), an exception.
BalanceAnswers == {"balance", "no_balance", "raises"}

\* NanoGPT.check_balance, lines 474-482: the JSON of the answer; when the
\* request raises, {"balance": 0, "error": "Failed to fetch balance"}.
CheckBalance(ans) ==
    CASE ans = "balance" -> [has_balance |-> TRUE, amount |-> "12.50", error |-> ""]
      [] ans = "no_balance" -> [has_balance |-> FALSE, amount |-> "", error |-> "Unknown error"]
      [] OTHER -> [has_balance |-> TRUE, amount |-> "0.00", error |-> "Failed to fetch balance"]

\* CheckBalance.run on a NanoGPT instance, tools.py lines 227-235.
BalanceOutcome(ans) ==
    LET info == CheckBalance(ans)
        out == IF info.has_balance
               THEN Outcome(FALSE, PyNone, "**NanoGPT Balance:** $" \o info.amount, FALSE)
               ELSE Outcome(FALSE, PyStrOf("Failed to check balance"),
                            "Error: " \o info.error, FALSE)
    IN  [out EXCEPT !.failed = (ans # "balance")]

\* CheckBalance.run, tools.py lines 221-239.
CheckBalanceRun(itype) ==
    IF itype # "nanogpt"
    THEN {Outcome(FALSE, PyStrOf("Balance check requires NanoGPT"), "Error: Wrong instance type", FALSE)}
    ELSE {BalanceOutcome(ans) : ans \in BalanceAnswers}

BackgroundRemoverRun ==
    {Outcome(FALSE, PyStrOf("Background removed successfully!"), "Successful", TRUE),
     Outcome(FALSE, PyStrOf("Sorry, an error occurred"), "An error occurred", TRUE),
     Outcome(FALSE, PyStrOf("Please provide an image and try again!"),
             "Error: User didn't attach an image", TRUE)}

RaisesOnStr == {Outcome(TRUE, PyNone, "", FALSE)}

\* The properties each tool declares with required=True.
RequiredArguments(name) ==
    CASE name = "web_search" -> {"query"}
      [] name \in {"youtube_transcript", "web_scrape"} -> {"url"}
      [] name = "run_command" -> {"command", "explanation"}
      [] name = "generate_image" -> {"prompt"}
      [] OTHER -> {}

\* The keys of the mapping an argument string encodes.
ArgumentKeys(raw) == IF raw = "{\"q\": \"x\"}" THEN {"q"} ELSE {}

\* The tools whose run asks for a NanoGPT instance.
NeedsNanoGPT == {"check_balance", "generate_image"}

\* The outcomes of available_tools[name].run(arguments, messages, bot_message)
\* when arguments is a str.
ToolRun(name, itype) ==
    CASE name \in ReadsArguments -> RaisesOnStr
      [] name = "check_balance" -> CheckBalanceRun(itype)
      [] name = "background_remover" -> BackgroundRemoverRun
      [] OTHER -> RaisesOnStr

\* ----------------------------------------------------------- get_metadata
\* tools.Property
Property(n, d, ty, req) == [name |-> n, description |-> d, var_type |-> ty, required |-> req]

\* A tool class: its name, description and properties list.
Tool(n, d, ps) == [name |-> n, description |-> d, properties |-> ps]

\* tools.NoTool: no description, no properties.
NoTool == Tool("no_tool", "", <<>>)

\* Lines 37-38: properties[p.name] = {...}; a later p of the same name
\* replaces an earlier one.
MetadataProperties(ps) ==
    LET names == {ps[i].name : i \in 1..Len(ps)}
        last(n) == CHOOSE i \in 1..Len(ps) :
                       ps[i].name = n /\ \A j \in (i + 1)..Len(ps) : ps[j].name # n
    IN  [n \in names |->
            [type |-> ps[last(n)].var_type, description |-> ps[last(n)].description]]

\* Lines 39-40: the names of the required properties, each once, in order.
RECURSIVE RequiredProperties(_, _)
RequiredProperties(ps, acc) ==
    IF ps = <<>> THEN acc
    ELSE LET p == Head(ps)
             seen == \E i \in 1..Len(acc) : acc[i] = p.name
         IN  RequiredProperties(Tail(ps), IF p.required /\ ~seen THEN Append(acc, p.name) ELSE acc)

\* Base.get_metadata, lines 34-55.
GetMetadata(tl) ==
    [type |-> "function",
     function |->
        [name |-> tl.name,
         description |-> tl.description,
         parameters |->
            [type |-> "object",
             properties |-> MetadataProperties(tl.properties),
             required |-> RequiredProperties(tl.properties, <<>>)]]]

\* A describe that uses its properties up.
PropertiesAfterMetadataConsumed(ps) == <<>>

\* Lines 34-55: self.properties is only read.
PropertiesAfterMetadata(ps) == ps

\* ------------------------------------------------------- request shaping
\* A rewrite that leaves the roles as they are.
NoSystemRewriteSkipped(msgs) == msgs

\* generate_response, "no-system-messages": every system role becomes user.
NoSystemRewrite(msgs) ==
    [i \in 1..Len(msgs) |->
        IF msgs[i].role = "system" THEN [msgs[i] EXCEPT !.role = "user"] ELSE msgs[i]]

\* len(messages[i].get("content", [])), evaluated once by range(): a list has
\* its blocks, a str its characters (only empty or not matters below).
ContentLen(ct) ==
    IF ct.kind = "list" THEN Len(ct.blocks) ELSE IF ct.text = "" THEN 0 ELSE 1

\* generate_response, "text-only": the loop "for c in range(n)" from index c
\* on, over the content as mutated so far.  Indexing past the end of a list
\* that a del has shortened, and calling .get on a character of a content that
\* is (or has become) a str, raise.
RECURSIVE TextOnlyLoop(_, _, _)
TextOnlyLoop(ct, c, n) ==
    IF c > n THEN [raised |-> FALSE, content |-> ct]
    ELSE IF ct.kind = "str" THEN [raised |-> TRUE, content |-> ct]
    ELSE IF c > Len(ct.blocks) THEN [raised |-> TRUE, content |-> ct]
    ELSE IF ct.blocks[c].type # "text"
         THEN TextOnlyLoop(ListContent(RemoveAt(ct.blocks, c)), c + 1, n)
         ELSE TextOnlyLoop(StrContent(ct.blocks[c].text), c + 1, n)

TextOnlyMsg(m) == TextOnlyLoop(m.content, 1, ContentLen(m.content))

\* The outer loop over the messages from index i on; the first raise ends it.
RECURSIVE TextOnlyFrom(_, _)
TextOnlyFrom(msgs, i) ==
    IF i > Len(msgs) THEN [raised |-> FALSE, messages |-> msgs]
    ELSE LET r == TextOnlyMsg(msgs[i])
             next == [msgs EXCEPT ![i].content = r.content]
         IN  IF r.raised THEN [raised |-> TRUE, messages |-> next]
             ELSE TextOnlyFrom(next, i + 1)

\* Lines 197-210: the two limitation-driven transforms, in the code's order.
ShapeMessages(lims, msgs) ==
    LET m1 == IF "no-system-messages" \in lims THEN NoSystemRewrite(msgs) ELSE msgs
    IN  IF "text-only" \in lims THEN TextOnlyFrom(m1, 1)
        ELSE [raised |-> FALSE, messages |-> m1]

\* A token limit that is sent whatever its value.
TokenLimitFieldAlways(lims, max_tokens) ==
    {IF "use_max_completion_tokens" \in lims THEN "max_completion_tokens" ELSE "max_tokens"}

\* Lines 214-220: the token-limit key of params, if any.
TokenLimitField(lims, max_tokens) ==
    IF max_tokens > 0
    THEN {IF "use_max_completion_tokens" \in lims THEN "max_completion_tokens" ELSE "max_tokens"}
    ELSE {}

\* Overrides that send a nonzero seed whether or not they are enabled.
OverrideFieldsSeedAlways(props) ==
    (IF props.override_parameters THEN {"temperature"} ELSE {})
    \cup (IF props.has_seed /\ props.seed # 0 THEN {"seed"} ELSE {})

\* Lines 222-225: the keys the parameter overrides add to params;
\* properties.get("seed", 0) is 0 when __init__ deleted the seed.
OverrideFields(props) ==
    IF props.override_parameters
    THEN {"temperature"} \cup (IF props.has_seed /\ props.seed # 0 THEN {"seed"} ELSE {})
    ELSE {}

\* Lines 212-225: params, as the set of its keys and their values.
BuildParams(lims, props, msgs, model) ==
    LET tok == TokenLimitField(lims, props.max_tokens)
    IN  [model |-> model, messages |-> msgs, stream |-> TRUE,
         keys |-> {"model", "messages", "stream"} \cup tok \cup OverrideFields(props),
         max_tokens |-> props.max_tokens,
         temperature |-> props.temperature,
         seed |-> props.seed,
         tools |-> {}]

\* NanoGPT.generate_response, lines 485-495: the params dict of the method
\* itself, as the set of its keys and the model id.
NanoGPTParams(props, model) ==
    [model |-> IF props.context_memory_enabled
               THEN model \o ":memory-" \o ToString(props.context_memory_days)
               ELSE model,
     keys |-> {"model", "messages", "stream"}
              \cup (IF props.auto_youtube_transcripts THEN {"youtube_transcripts"} ELSE {})]

\* Line 502, super().generate_response(bot_message, chat, messages, model):
\* the model id handed on is the parameter, not params["model"].
NanoGPTModel(props, model) == model

\* NanoGPT.generate_response, lines 485-500: its own params dict is dropped
\* (super() builds another); only the insert into messages takes effect.
NanoGPTMessages(props, msgs) ==
    IF props.system_prompt # ""
    THEN <<Msg("system", StrContent(props.system_prompt))>> \o msgs
    ELSE msgs

\* A constructor that keeps the seed whatever the limitations.
InstanceInitKeepsSeed(lims, given) == given

\* BaseInstance.__init__, lines 37-40: defaults, and "no-seed" deletes seed.
InstanceInit(lims, given) ==
    [given EXCEPT !.has_seed = ~("no-seed" \in lims)]

\* ---------------------------------------------------------------- state
VARIABLES
    limitations,      \* the instance's limitations (class attribute)
    properties,       \* the instance's properties
    instance_type,    \* "nanogpt", or "openai" for another provider class
    chat_id,          \* whether the chat has a chat_id
    chat_name,        \* chat.get_name()
    busy,             \* chat.busy
    container,        \* chat.container: the user and bot messages, in order
    title_tasks,      \* generate_chat_title threads started so far
    title_pc,         \* per turn: where the title thread it started stands
    title_new,        \* per turn: that thread's new_chat_title
    title_log,        \* per turn: what that thread did, for stating the claims
    uuid_counter,     \* generate_uuid: identifiers handed out so far
    pc,               \* per turn: where its thread stands
    bot_index,        \* per turn: position of its bot message in the container
    messages,         \* per turn: the working message list
    content,          \* per turn: the bot message's visible content
    finished,         \* per turn: finish_generation was called on the bot message
    generate_flag,    \* per turn: use_tools' generate_message parameter/local
    message_response, \* per turn: use_tools' message_response
    tool_calls,       \* per turn: completion.choices[0].message.tool_calls
    call_idx,         \* per turn: the call the for loop is at
    response_text,    \* per turn: completion.choices[0].message.content
    attachments,      \* per turn: attachments added to the bot message
    dialogs,          \* per turn: error dialogs shown
    requests,         \* per turn: completion requests issued (their params)
    chunk_no,         \* per turn: chunks received from the stream
    log,              \* per turn: what happened, for stating the claims
    tool,             \* the tool being described: name, description, properties
    metadata,         \* what get_metadata returned, call by call
    local_models,     \* SQL.get_online_instance_model_list(instance_id)
    available_models, \* the instance's available_models
    model_log,        \* what the model functions returned, call by call
    api_key_entry,    \* setup: the text of the API key entry
    validated_api_key,\* setup: SetupDialog.validated_api_key
    selected_model,   \* setup: SetupDialog.selected_model
    model_store,      \* setup: the ids of the rows of model_store
    scheduled,        \* setup: the key of the validate_api_key call scheduled
    test_sensitive,   \* setup: test_api_key_button is sensitive
    next_sensitive,   \* setup: next_button is sensitive
    page,             \* setup: the page on top of the navigation view
    instances,        \* setup: the instances written by SQL.insert_or_update_instance
    skip_welcome,     \* setup: the setting "skip-welcome"
    closed,           \* setup: the dialog was closed
    setup_log         \* setup: the last validation, for stating the claims

vars ==
    <<limitations, properties, instance_type, chat_id, chat_name, busy, container,
      title_tasks, title_pc, title_new, title_log, uuid_counter, pc, bot_index,
      messages, content, finished, generate_flag, message_response, tool_calls, call_idx, response_text,
      attachments, dialogs, requests, chunk_no, log,
      tool, metadata, local_models, available_models, model_log,
      api_key_entry, validated_api_key, selected_model, model_store, scheduled,
      test_sensitive, next_sensitive, page, instances, skip_welcome, closed, setup_log>>

setupVars == <<api_key_entry, validated_api_key, selected_model, model_store, scheduled,
               test_sensitive, next_sensitive, page, instances, skip_welcome, closed,
               setup_log>>

catalogVars == <<tool, metadata, local_models, available_models, model_log, setupVars>>

instanceVars == <<limitations, properties, instance_type, chat_id>>

titleVars == <<title_pc, title_new, title_log>>

toolVars == <<generate_flag, message_response, tool_calls, call_idx, response_text,
              attachments, uuid_counter>>

ModelName == "m"

\* BaseInstance.default_properties; system_prompt, auto_youtube_transcripts
\* and the context_memory settings are NanoGPT's, and empty or off where the
\* class has none.
DefaultProperties ==
    [max_tokens |-> 2048, override_parameters |-> TRUE, temperature |-> "0.7",
     seed |-> 0, has_seed |-> TRUE, system_prompt |-> "",
     default_model |-> PyNone, title_model |-> PyNone,
     auto_youtube_transcripts |-> FALSE,
     context_memory_enabled |-> FALSE, context_memory_days |-> 30]

\* NanoGPT.default_properties.
NanoGPTProperties ==
    [DefaultProperties EXCEPT !.max_tokens = 4096, !.auto_youtube_transcripts = TRUE]

\* What the record of a turn starts as.
EmptyLog ==
    [ran |-> <<>>,            \* indices of the calls the loop body was entered for
     returned |-> <<>>,       \* the summaries the tools' run returned
     details |-> <<>>,        \* per call entered: the detail body, once known
     appended |-> <<>>,       \* the role=tool messages appended, in order
     failed |-> <<>>,         \* per detail body: the tool's backend request failed
     passed |-> <<>>,         \* per run entered: what run was called with
     base |-> <<>>,           \* the working list as prepare_chat built it
     param |-> FALSE,         \* generate_message as use_tools was called
     escaped |-> FALSE,       \* an exception left the thread
     entered |-> FALSE,       \* generate_response was entered
     flip_seen |-> FALSE,     \* busy went false while this turn was streaming
     flip_content |-> <<>>,   \* the content at that moment
     flip_extra |-> 0,        \* increments appended since, busy still false
     rearmed |-> FALSE,       \* busy was set again after the flip
     stream_raised |-> FALSE, \* opening or consuming the stream raised
     raise_content |-> <<>>,  \* the content at that moment
     raise_dialogs |-> 0,     \* the error dialogs shown until that moment
     skipped |-> FALSE,       \* the streaming step was reached with busy false
     skip_content |-> <<>>,   \* the content at that moment
     skip_requests |-> 0,     \* the requests issued until that moment
     own_params |-> [model |-> "", keys |-> {}]]
                              \* params of NanoGPT.generate_response, if built

\* What the record of a title thread starts as.
EmptyTitleLog ==
    [seen_name |-> "",        \* the chat's name when the trigger was evaluated
     start_name |-> "",       \* the chat's name as the thread read it
     parse_calls |-> 0,       \* structured calls made
     create_calls |-> 0,      \* plain completions made
     unparsed |-> FALSE,      \* the structured call returned without a parsed result
     parse_raised |-> FALSE,  \* the structured call raised
     create_raised |-> FALSE, \* the plain completion raised
     raw |-> "",              \* the text of the plain completion
     clean |-> "",            \* new_chat_title after line 291, before the cut
     before_write |-> "",     \* the chat's name just before the final write
     wrote |-> FALSE]         \* the final write was made

\* ----------------------------------------------------------- conversation
\* chat.convert_to_json(): one message per container entry.
ConvertToJson(cont) ==
    [i \in 1..Len(cont) |-> Msg(cont[i].role, cont[i].content)]

\* A container entry; bot is the turn whose bot message it is, or 0.
Entry(r, c, b) == [role |-> r, content |-> c, bot |-> b]

UserText == ListContent(<<TextBlock("hello")>>)

BotText == ListContent(<<TextBlock("answer")>>)

TypeOK ==
    /\ limitations \subseteq Limitations
    /\ instance_type \in {"nanogpt", "openai"}
    /\ chat_id \in BOOLEAN
    /\ busy \in BOOLEAN
    /\ title_tasks \in 0..MaxTurns
    /\ pc \in [Turns -> {"idle", "gm", "ut", "wait_completion", "calls", "decide",
                         "gr", "wait_stream", "recv", "check", "finish", "done", "dead"}]
    /\ finished \in [Turns -> BOOLEAN]

\* ------------------------------------------------------------- initially
PerTurn(v) == [t \in Turns |-> v]

\* No tool described, no model listed or fetched yet.
\* What is known of the last validation before there was one.
NoValidation == [key |-> "", outcome |-> "none"]

\* SetupDialog.__init__, lines 48-67: nothing validated, nothing selected,
\* an empty model store, the welcome page on top.
InitSetupDialog ==
    /\ api_key_entry = ""
    /\ validated_api_key = PyNone
    /\ selected_model = PyNone
    /\ model_store = <<>>
    /\ scheduled = PyNone
    /\ test_sensitive = TRUE
    /\ next_sensitive = FALSE
    /\ page = "welcome"
    /\ instances = <<>>
    /\ skip_welcome = FALSE
    /\ closed = FALSE
    /\ setup_log = [last |-> NoValidation, at_finish |-> NoValidation,
                    fetch_error |-> FALSE]

InitCatalog ==
    /\ tool = NoTool
    /\ metadata = <<>>
    /\ local_models = <<>>
    /\ available_models = PyNone
    /\ model_log = <<>>
    /\ InitSetupDialog

InitTurns ==
    /\ busy = FALSE
    /\ title_tasks = 0
    /\ title_pc = PerTurn("none")
    /\ title_new = PerTurn("")
    /\ title_log = PerTurn(EmptyTitleLog)
    /\ uuid_counter = 0
    /\ pc = PerTurn("idle")
    /\ bot_index = PerTurn(0)
    /\ messages = PerTurn(<<>>)
    /\ content = PerTurn(<<>>)
    /\ finished = PerTurn(FALSE)
    /\ generate_flag = PerTurn(FALSE)
    /\ message_response = PerTurn(PyStrOf(""))
    /\ tool_calls = PerTurn(<<>>)
    /\ call_idx = PerTurn(0)
    /\ response_text = PerTurn("")
    /\ attachments = PerTurn(<<>>)
    /\ dialogs = PerTurn(0)
    /\ requests = PerTurn(<<>>)
    /\ chunk_no = PerTurn(0)
    /\ log = PerTurn(EmptyLog)

\* The instances and conversations the turn specifications start from.
TurnLimitations == SUBSET {"no-system-messages", "text-only"}

\* A provider class without settings of its own, and NanoGPT without and with
\* a system prompt.
TurnInstances ==
    { [type |-> "openai", given |-> DefaultProperties],
      [type |-> "nanogpt", given |-> NanoGPTProperties],
      [type |-> "nanogpt", given |-> [NanoGPTProperties EXCEPT !.system_prompt = "Be brief"]] }

\* A new conversation, and one with an image in an earlier exchange.
TurnHistories ==
    { <<>>,
      <<Entry("user", ListContent(<<ImageBlock, TextBlock("look")>>), 0),
        Entry("assistant", BotText, 0)>> }

Init ==
    /\ limitations \in TurnLimitations
    /\ \E i \in TurnInstances :
          /\ instance_type = i.type
          /\ properties = InstanceInit(limitations, i.given)
    /\ chat_id \in BOOLEAN
    /\ chat_name = "New Chat"
    /\ container \in TurnHistories
    /\ InitTurns
    /\ InitCatalog

\* --------------------------------------------------- the busy flag's record
Streaming(t) == pc[t] \in {"wait_stream", "recv", "check"}

\* busy is set to FALSE by a step: every turn that is streaming, and saw busy
\* TRUE until now, notes its content.
OnBusyFalse(lg) ==
    [u \in Turns |->
        IF busy /\ Streaming(u)
        THEN [lg[u] EXCEPT !.flip_seen = TRUE, !.flip_content = content[u],
                           !.flip_extra = 0, !.rearmed = FALSE]
        ELSE lg[u]]

\* busy is set to TRUE by a step.
OnBusyTrue(lg) ==
    [u \in Turns |-> IF lg[u].flip_seen THEN [lg[u] EXCEPT !.rearmed = TRUE] ELSE lg[u]]

\* An increment is appended to turn t's content.
OnAppend(lg, t) ==
    IF lg[t].flip_seen /\ ~lg[t].rearmed
    THEN [lg EXCEPT ![t].flip_extra = @ + 1]
    ELSE lg

\* ---------------------------------------------------------------- window
\* window.send_message, lines 235-259: the user message and the bot message
\* are appended, busy is set, the generate_message thread is started.  None of
\* its early returns (lines 199-230) looks at chat.busy.
SendMessage(t) ==
    /\ pc[t] = "idle"
    /\ \A u \in Turns : u < t => pc[u] # "idle"
    /\ container' = container \o <<Entry("user", UserText, 0), Entry("assistant", BotText, t)>>
    /\ bot_index' = [bot_index EXCEPT ![t] = Len(container) + 2]
    /\ busy' = TRUE
    /\ pc' = [pc EXCEPT ![t] = "gm"]
    /\ log' = OnBusyTrue(log)
    /\ UNCHANGED <<instanceVars, catalogVars, chat_name, title_tasks, titleVars, messages, content, finished,
                   dialogs, requests, chunk_no, toolVars>>

\* The stop control of the conversation: clears busy (the cooperative signal).
StopMessage ==
    /\ busy
    /\ busy' = FALSE
    /\ log' = OnBusyFalse(log)
    /\ UNCHANGED <<instanceVars, catalogVars, chat_name, container, title_tasks, titleVars, pc, bot_index,
                   messages, content, finished, dialogs, requests, chunk_no, toolVars>>

\* ----------------------------------------------------------- prepare_chat
\* The names a chat is created with.
PlaceholderNames == {"New Chat", "New Chat 1"}

\* str.startswith
StartsWith(x, prefix) == Len(x) >= Len(prefix) /\ SubSeq(x, 1, Len(prefix)) = prefix

\* prepare_chat's return value: the conversation up to the bot message.
PreparedMessages(t) == SubSeq(ConvertToJson(container), 1, bot_index[t] - 1)

\* prepare_chat, line 64: busy is set when the chat has a chat_id.
PreparedBusy == IF chat_id THEN TRUE ELSE busy

\* A trigger that does not look at the earlier turns.
TitleWantedWhateverTheHistory(msgs) == chat_id /\ StartsWith(chat_name, "New Chat")

\* Lines 75-79 and 103-107: whether the title thread is started.
TitleWanted(msgs) ==
    /\ chat_id
    /\ \A i \in 1..Len(msgs) : msgs[i].role # "assistant"
    /\ StartsWith(chat_name, "New Chat")

\* Lines 75-94 and 103-122: the title thread is started when it is wanted.
TitleThreadStart(t, msgs) ==
    /\ title_tasks' = IF TitleWanted(msgs) THEN title_tasks + 1 ELSE title_tasks
    /\ title_pc' = IF TitleWanted(msgs) THEN [title_pc EXCEPT ![t] = "start"] ELSE title_pc
    /\ title_log' = [title_log EXCEPT ![t].seen_name = chat_name]
    /\ UNCHANGED title_new

\* generate_message, lines 72-96, up to the call of generate_response.
GenerateMessage(t) ==
    /\ pc[t] = "gm"
    /\ LET msgs == PreparedMessages(t)
       IN  /\ messages' = [messages EXCEPT ![t] = msgs]
           /\ TitleThreadStart(t, msgs)
           /\ log' = [(IF chat_id THEN OnBusyTrue(log) ELSE log) EXCEPT ![t].base = msgs]
    /\ busy' = PreparedBusy
    /\ pc' = [pc EXCEPT ![t] = "gr"]
    /\ UNCHANGED <<instanceVars, catalogVars, chat_name, container, bot_index, content, finished,
                   dialogs, requests, chunk_no, toolVars>>

\* ------------------------------------------------------ generate_response
\* The messages generate_response works on: a NanoGPT instance enters through
\* its override.
EnteredMessages(msgs) ==
    IF instance_type = "nanogpt" THEN NanoGPTMessages(properties, msgs) ELSE msgs

\* A streaming step that does not look at the flag.
StreamWantedAlways(b) == TRUE

\* Line 227, "if chat.busy": whether the streaming step is entered.
StreamWanted(b) == b

\* generate_response, lines 196-230: shaping, params, and, when the chat is
\* busy, clear() and the streamed request.  An exception raised by the shaping
\* is outside the try and leaves the thread.
GenerateResponse(t) ==
    /\ pc[t] = "gr"
    /\ LET shaped == ShapeMessages(limitations, EnteredMessages(messages[t]))
           model == IF instance_type = "nanogpt"
                    THEN NanoGPTModel(properties, ModelName) ELSE ModelName
           params == BuildParams(limitations, properties, shaped.messages, model)
       IN  /\ messages' = [messages EXCEPT ![t] = shaped.messages]
           /\ log' = [log EXCEPT ![t].entered = TRUE, ![t].escaped = shaped.raised,
                                 ![t].own_params =
                                     IF instance_type = "nanogpt"
                                     THEN NanoGPTParams(properties, ModelName) ELSE @,
                                 ![t].skipped = ~shaped.raised /\ ~busy,
                                 ![t].skip_content = content[t],
                                 ![t].skip_requests = Len(requests[t])]
           /\ IF shaped.raised
              THEN /\ pc' = [pc EXCEPT ![t] = "dead"]
                   /\ UNCHANGED <<content, requests>>
              ELSE IF StreamWanted(busy)
              THEN /\ pc' = [pc EXCEPT ![t] = "wait_stream"]
                   /\ content' = [content EXCEPT ![t] = <<>>]
                   /\ requests' = [requests EXCEPT ![t] = Append(@, params)]
              ELSE /\ pc' = [pc EXCEPT ![t] = "finish"]
                   /\ UNCHANGED <<content, requests>>
    /\ UNCHANGED <<instanceVars, catalogVars, chat_name, busy, container, title_tasks, titleVars, bot_index,
                   finished, dialogs, chunk_no, toolVars>>

streamFrame == <<instanceVars, catalogVars, chat_name, busy, container, title_tasks, titleVars, bot_index,
                 messages, finished, requests, toolVars>>

\* client.chat.completions.create(**params) returns the stream.
StreamOpens(t) ==
    /\ pc[t] = "wait_stream"
    /\ pc' = [pc EXCEPT ![t] = "recv"]
    /\ UNCHANGED <<streamFrame, content, dialogs, chunk_no, log>>

\* An except clause that only logs.
SimpleErrorSilent(n) == n

\* Lines 239-244: dialog.simple_error, given the dialogs shown so far.
SimpleError(n) == n + 1

\* Lines 238-247: an exception while opening or consuming the stream.
StreamRaises(t) ==
    /\ pc[t] \in {"wait_stream", "recv"}
    /\ dialogs' = [dialogs EXCEPT ![t] = SimpleError(@)]
    /\ pc' = [pc EXCEPT ![t] = "finish"]
    /\ log' = [log EXCEPT ![t].stream_raised = TRUE,
                          ![t].raise_content = content[t],
                          ![t].raise_dialogs = dialogs[t]]
    /\ UNCHANGED <<streamFrame, content, chunk_no>>

DeltaText(k) == "d" \o ToString(k)

\* Lines 231-235: a chunk with a non-empty delta.content: update_message.
RecvDelta(t) ==
    /\ pc[t] = "recv"
    /\ chunk_no[t] < MaxChunks
    /\ chunk_no' = [chunk_no EXCEPT ![t] = @ + 1]
    /\ content' = [content EXCEPT ![t] = Append(@, DeltaText(chunk_no[t] + 1))]
    /\ log' = OnAppend(log, t)
    /\ pc' = [pc EXCEPT ![t] = "check"]
    /\ UNCHANGED <<streamFrame, dialogs>>

\* Lines 231-234: a chunk without choices, delta or content.
RecvEmpty(t) ==
    /\ pc[t] = "recv"
    /\ chunk_no[t] < MaxChunks
    /\ chunk_no' = [chunk_no EXCEPT ![t] = @ + 1]
    /\ pc' = [pc EXCEPT ![t] = "check"]
    /\ UNCHANGED <<streamFrame, content, dialogs, log>>

\* The stream is exhausted: the for loop ends.
StreamEnds(t) ==
    /\ pc[t] = "recv"
    /\ pc' = [pc EXCEPT ![t] = "finish"]
    /\ UNCHANGED <<streamFrame, content, dialogs, chunk_no, log>>

\* A loop that never looks at the flag.
StillActiveIgnored(b) == TRUE

\* Line 236: whether the loop goes on after a chunk.
StillActive(b) == b

\* Lines 236-237: "if not chat.busy: break".
CheckBusy(t) ==
    /\ pc[t] = "check"
    /\ pc' = [pc EXCEPT ![t] = IF StillActive(busy) THEN "recv" ELSE "finish"]
    /\ UNCHANGED <<streamFrame, content, dialogs, chunk_no, log>>

\* bot_message.finish_generation(): the message is final, the chat idle again.
FinishGeneration(t) ==
    /\ pc[t] = "finish"
    /\ finished' = [finished EXCEPT ![t] = TRUE]
    /\ busy' = FALSE
    /\ log' = OnBusyFalse(log)
    /\ pc' = [pc EXCEPT ![t] = "done"]
    /\ UNCHANGED <<instanceVars, catalogVars, chat_name, container, title_tasks, titleVars, bot_index, messages,
                   content, dialogs, requests, chunk_no, toolVars>>

\* -------------------------------------------------------------- use_tools
\* The keys of available_tools: the tools the user has enabled.
AvailableTools == Registry

Call(n, a) == [name |-> n, arguments |-> a]

\* The calls a response may make: a tool that reads its arguments, tools that
\* do not (with well-formed and malformed arguments), and a name that is in no
\* registry (with well-formed and malformed arguments).
CallChoices ==
    { Call("web_search", "{\"q\": \"x\"}"),
      Call("check_balance", "{}"),
      Call("check_balance", "{\"q\": "),
      Call("background_remover", "{}"),
      Call("foo_bar", "{\"q\": \"x\"}"),
      Call("foo_bar", "{\"q\": ") }

CallId(i) == "call_" \o ToString(i)

\* The tool_calls lists a response may carry: 1..MaxCalls calls.
Batches == UNION {[1..n -> CallChoices] : n \in 1..MaxCalls}

BatchCalls(b) ==
    [i \in 1..Len(b) |-> [id |-> CallId(i), name |-> b[i].name, arguments |-> b[i].arguments]]

\* The sender of a tool-enabled turn: like send_message, it appends the two
\* messages and marks the chat busy; it refuses while the chat is busy.
StartUseTools(t, gm) ==
    /\ t = 1
    /\ \A u \in Turns : pc[u] = "idle"
    /\ ~busy
    /\ container' = container \o <<Entry("user", UserText, 0), Entry("assistant", BotText, t)>>
    /\ bot_index' = [bot_index EXCEPT ![t] = Len(container) + 2]
    /\ busy' = TRUE
    /\ generate_flag' = [generate_flag EXCEPT ![t] = gm]
    /\ pc' = [pc EXCEPT ![t] = "ut"]
    /\ log' = [OnBusyTrue(log) EXCEPT ![t].param = gm]
    /\ UNCHANGED <<instanceVars, catalogVars, chat_name, title_tasks, titleVars, messages, content, finished,
                   dialogs, requests, chunk_no, message_response, tool_calls, call_idx,
                   response_text, attachments, uuid_counter>>

\* Lines 126-130: the non-streamed request; messages go out as prepared.
ToolParams(msgs, model) ==
    [model |-> model, messages |-> msgs, stream |-> FALSE,
     keys |-> {"model", "messages", "tools"},
     max_tokens |-> 0, temperature |-> "", seed |-> 0, tools |-> AvailableTools]

\* use_tools, lines 98-130: prepare_chat, the title thread, message_response,
\* and the non-streamed completion request.
UseTools(t) ==
    /\ pc[t] = "ut"
    /\ LET msgs == PreparedMessages(t)
       IN  /\ messages' = [messages EXCEPT ![t] = msgs]
           /\ TitleThreadStart(t, msgs)
           /\ log' = [(IF chat_id THEN OnBusyTrue(log) ELSE log) EXCEPT ![t].base = msgs]
           /\ requests' = [requests EXCEPT ![t] = Append(@, ToolParams(msgs, ModelName))]
    /\ busy' = PreparedBusy
    /\ message_response' = [message_response EXCEPT ![t] = PyStrOf("")]
    /\ pc' = [pc EXCEPT ![t] = "wait_completion"]
    /\ UNCHANGED <<instanceVars, catalogVars, chat_name, container, bot_index, content, finished,
                   dialogs, chunk_no, generate_flag, tool_calls, call_idx,
                   response_text, attachments, uuid_counter>>

completionFrame == <<instanceVars, catalogVars, chat_name, busy, container, title_tasks, titleVars, bot_index,
                     messages, content, finished, requests, chunk_no, generate_flag,
                     message_response, attachments, uuid_counter>>

\* Lines 181-188: the completion call raises.
CompletionRaises(t) ==
    /\ pc[t] = "wait_completion"
    /\ dialogs' = [dialogs EXCEPT ![t] = @ + 1]
    /\ pc' = [pc EXCEPT ![t] = "decide"]
    /\ UNCHANGED <<completionFrame, tool_calls, call_idx, response_text, log>>

\* Lines 131-132: a response whose message has no tool calls.
CompletionPlain(t) ==
    /\ pc[t] = "wait_completion"
    /\ response_text' = [response_text EXCEPT ![t] = "Plain answer"]
    /\ pc' = [pc EXCEPT ![t] = "decide"]
    /\ UNCHANGED <<completionFrame, tool_calls, call_idx, dialogs, log>>

\* Lines 131-133: a response with tool calls; the for loop starts.
CompletionCalls(t, b) ==
    /\ pc[t] = "wait_completion"
    /\ tool_calls' = [tool_calls EXCEPT ![t] = BatchCalls(b)]
    /\ call_idx' = [call_idx EXCEPT ![t] = 1]
    /\ pc' = [pc EXCEPT ![t] = "calls"]
    /\ UNCHANGED <<completionFrame, response_text, dialogs, log>>

\* The flag taken from the last summary alone.
KeepGeneratingLastOnly(g, sum) == ~PyBool(sum)

\* Lines 138-140: generate_message after a tool returned summary sum.
KeepGenerating(g, sum) == g /\ ~PyBool(sum)

\* Lines 135-137: run(call.function.arguments, messages, bot_message): the
\* first argument is the arguments attribute of the call as received, a str.
RunArguments(t, call) ==
    [arguments |-> [kind |-> "str", text |-> call.arguments],
     messages |-> messages[t],
     target |-> t]

\* Lines 142-168: the attachment of a call that ran.
ToolAttachment(id, name, raw, detail) ==
    [file_id |-> id, name |-> name, type |-> "tool",
     arguments_table |-> JsonLoads(raw).len > 0, result |-> detail]

\* Where the loop goes after the body of call i ended normally.
AfterCall(t, i) == IF i < Len(tool_calls[t]) THEN "calls" ELSE "decide"

callFrame == <<instanceVars, catalogVars, chat_name, busy, container, title_tasks, titleVars, bot_index,
               content, finished, requests, chunk_no, tool_calls, response_text>>

\* Lines 134-168 and 172-179, the body of the loop for a call whose tool is in
\* available_tools and whose run returns out.
RegisteredCall(t, call, out) ==
    LET parsed == JsonLoads(call.arguments)
        lg == [log EXCEPT ![t].ran = Append(@, call_idx[t]),
                          ![t].passed = Append(@, RunArguments(t, call)),
                          ![t].returned = Append(@, out.summary),
                          ![t].details = Append(@, out.detail),
                          ![t].failed = Append(@, out.failed)]
        msgs == IF out.reversed THEN Reverse(messages[t]) ELSE messages[t]
    IN  /\ message_response' = [message_response EXCEPT ![t] = out.summary]
        /\ generate_flag' = [generate_flag EXCEPT ![t] = KeepGenerating(@, out.summary)]
        /\ IF parsed.ok
           THEN /\ uuid_counter' = uuid_counter + 1
                /\ attachments' = [attachments EXCEPT ![t] =
                       Append(@, ToolAttachment(uuid_counter + 1, call.name,
                                                call.arguments, out.detail))]
                /\ messages' = [messages EXCEPT ![t] = Append(msgs, ToolMsg(call.id, out.detail))]
                /\ log' = [lg EXCEPT ![t].appended = Append(@, ToolMsg(call.id, out.detail))]
                /\ call_idx' = [call_idx EXCEPT ![t] = @ + 1]
                /\ pc' = [pc EXCEPT ![t] = AfterCall(t, call_idx[t])]
                /\ UNCHANGED dialogs
           ELSE /\ messages' = [messages EXCEPT ![t] = msgs]
                /\ log' = lg
                /\ dialogs' = [dialogs EXCEPT ![t] = @ + 1]
                /\ pc' = [pc EXCEPT ![t] = "decide"]
                /\ UNCHANGED <<uuid_counter, attachments, call_idx>>

\* Lines 181-188 reached from run: the tool raised, the loop is left.
RaisingCall(t) ==
    /\ log' = [log EXCEPT ![t].ran = Append(@, call_idx[t]),
                          ![t].passed = Append(@, RunArguments(t, tool_calls[t][call_idx[t]]))]
    /\ dialogs' = [dialogs EXCEPT ![t] = @ + 1]
    /\ pc' = [pc EXCEPT ![t] = "decide"]
    /\ UNCHANGED <<messages, message_response, generate_flag, uuid_counter, attachments,
                   call_idx>>

\* Lines 169-179: the tool is not in available_tools.
UnknownCall(t, call) ==
    LET lg == [log EXCEPT ![t].ran = Append(@, call_idx[t]),
                          ![t].details = Append(@, ""),
                          ![t].failed = Append(@, FALSE)]
    IN  /\ IF JsonLoads(call.arguments).ok
           THEN /\ messages' = [messages EXCEPT ![t] = Append(@, ToolMsg(call.id, ""))]
                /\ log' = [lg EXCEPT ![t].appended = Append(@, ToolMsg(call.id, ""))]
                /\ call_idx' = [call_idx EXCEPT ![t] = @ + 1]
                /\ pc' = [pc EXCEPT ![t] = AfterCall(t, call_idx[t])]
                /\ UNCHANGED dialogs
           ELSE /\ log' = lg
                /\ dialogs' = [dialogs EXCEPT ![t] = @ + 1]
                /\ pc' = [pc EXCEPT ![t] = "decide"]
                /\ UNCHANGED <<messages, call_idx>>
        /\ UNCHANGED <<message_response, generate_flag, uuid_counter, attachments>>

\* Lines 133-188: one pass of "for call in ...tool_calls" inside the try.
ToolCall(t) ==
    /\ pc[t] = "calls"
    /\ LET call == tool_calls[t][call_idx[t]]
       IN  IF call.name \in AvailableTools
           THEN \E out \in ToolRun(call.name, instance_type) :
                    IF out.raised THEN RaisingCall(t) ELSE RegisteredCall(t, call, out)
           ELSE UnknownCall(t, call)
    /\ UNCHANGED callFrame

\* The content left as it was: set_content is not called.
SummaryContentDropped(v) == <<>>

\* Line 193: set_content(str(message_response)) replaces the visible content.
SummaryContent(v) == <<PyStr(v)>>

\* Lines 190-194: the follow-up generation, or the summary as the content.
UseToolsDecide(t) ==
    /\ pc[t] = "decide"
    /\ IF generate_flag[t]
       THEN /\ pc' = [pc EXCEPT ![t] = "gr"]
            /\ UNCHANGED content
       ELSE /\ content' = [content EXCEPT ![t] = SummaryContent(message_response[t])]
            /\ pc' = [pc EXCEPT ![t] = "finish"]
    /\ UNCHANGED <<instanceVars, catalogVars, chat_name, busy, container, title_tasks, titleVars, bot_index,
                   messages, finished, dialogs, requests, chunk_no, log, toolVars>>

\* ------------------------------------------------------------------ specs
StreamStep(t) ==
    \/ GenerateResponse(t)
    \/ StreamOpens(t)
    \/ StreamRaises(t)
    \/ RecvDelta(t)
    \/ RecvEmpty(t)
    \/ StreamEnds(t)
    \/ CheckBusy(t)
    \/ FinishGeneration(t)

Next ==
    \/ \E t \in Turns : SendMessage(t)
    \/ \E t \in Turns : GenerateMessage(t)
    \/ \E t \in Turns : StreamStep(t)
    \/ StopMessage

Spec == Init /\ [][Next]_vars

ToolStep(t) ==
    \/ UseTools(t)
    \/ CompletionRaises(t)
    \/ CompletionPlain(t)
    \/ \E b \in Batches : CompletionCalls(t, b)
    \/ ToolCall(t)
    \/ UseToolsDecide(t)

\* One tool-enabled turn, from its start to its end.
NextTools ==
    \/ \E t \in Turns, gm \in BOOLEAN : StartUseTools(t, gm)
    \/ \E t \in Turns : ToolStep(t)
    \/ \E t \in Turns : StreamStep(t)
    \/ StopMessage

\* The instances a tool-enabled turn is checked on.
ToolInstances ==
    { [type |-> "openai", given |-> DefaultProperties],
      [type |-> "nanogpt", given |-> NanoGPTProperties] }

\* A saved chat on each instance, with and without "text-only", and a chat
\* that has no chat_id yet.
InitTools ==
    /\ \/ /\ limitations \in SUBSET {"text-only"}
          /\ \E i \in ToolInstances :
                /\ instance_type = i.type
                /\ properties = InstanceInit(limitations, i.given)
          /\ chat_id = TRUE
          /\ container \in TurnHistories
       \/ /\ limitations = {}
          /\ instance_type = "openai"
          /\ properties = InstanceInit(limitations, DefaultProperties)
          /\ chat_id = FALSE
          /\ container = <<>>
    /\ chat_name = "New Chat"
    /\ InitTurns
    /\ InitCatalog

SpecTools == InitTools /\ [][NextTools]_vars

\* ---------------------------------------------------- generate_chat_title
\* Line 293: the length a title is cut to.
TitleLimit == 30

IsSpace(c) == c \in {" ", "\n"}

RECURSIVE LStrip(_)
LStrip(x) ==
    IF Len(x) > 0 /\ IsSpace(SubSeq(x, 1, 1)) THEN LStrip(SubSeq(x, 2, Len(x))) ELSE x

RECURSIVE RStrip(_)
RStrip(x) ==
    IF Len(x) > 0 /\ IsSpace(SubSeq(x, Len(x), Len(x)))
    THEN RStrip(SubSeq(x, 1, Len(x) - 1)) ELSE x

\* str.strip()
Strip(x) == RStrip(LStrip(x))

\* Where, from index j on, the first "</think>" starts that "." can reach:
\* 0 if a newline or the end of the string comes first.
RECURSIVE ThinkEnd(_, _)
ThinkEnd(x, j) ==
    IF j + 7 > Len(x) THEN 0
    ELSE IF SubSeq(x, j, j + 7) = "</think>" THEN j
    ELSE IF SubSeq(x, j, j) = "\n" THEN 0
    ELSE ThinkEnd(x, j + 1)

\* Line 291: re.sub(r"<think>.*?</think>", "", x) from index i on: leftmost,
\* shortest matches, "." not matching a newline.
RECURSIVE ReSubThink(_, _)
ReSubThink(x, i) ==
    IF i > Len(x) THEN ""
    ELSE IF i + 6 <= Len(x) /\ SubSeq(x, i, i + 6) = "<think>" /\ ThinkEnd(x, i + 7) # 0
         THEN ReSubThink(x, ThinkEnd(x, i + 7) + 8)
         ELSE SubSeq(x, i, i) \o ReSubThink(x, i + 1)

\* A cut that keeps the whole title.
TruncateTitleKeepsAll(x) == x

\* Lines 293-294: a title longer than 30 characters is cut.
TruncateTitle(x) ==
    IF Len(x) > TitleLimit THEN Strip(SubSeq(x, 1, TitleLimit)) \o "..." ELSE x

\* Lines 291-294: new_chat_title as chat.row.edit receives it.
FinalTitle(x) == TruncateTitle(Strip(ReSubThink(x, 1)))

\* Lines 281-282: the emoji is used only if it is one character long.
ParsedTitle(emoji, title) == (IF Len(emoji) = 1 THEN emoji ELSE "") \o " " \o title

\* Texts the model may answer with: short, 30 characters, longer with a space
\* as 30th character, 31 characters, and with a think span on one line and
\* over two lines.
TitleTexts ==
    { "Weekly Report Draft",
      "Plan for the autumn team trip.",
      "Notes on the quarterly budget review",
      "Refactoring the payment service",
      "<think>short</think>Budget",
      "<think>a\nb</think>Budget" }

Emojis == {"", "*", "**"}

\* response.choices[0].message.content of the plain completion: a str or None.
PlainContents == {PyStrOf(x) : x \in TitleTexts} \cup {PyNone}

titleFrame == <<instanceVars, catalogVars, busy, container, title_tasks, uuid_counter, pc, bot_index,
                messages, content, finished, generate_flag, message_response,
                tool_calls, call_idx, response_text, attachments, dialogs, requests,
                chunk_no, log>>

\* Lines 250-274: the thread builds its request and reads the chat's name.
TitleBegin(t) ==
    /\ title_pc[t] = "start"
    /\ title_new' = [title_new EXCEPT ![t] = chat_name]
    /\ title_log' = [title_log EXCEPT ![t].start_name = chat_name, ![t].parse_calls = @ + 1]
    /\ title_pc' = [title_pc EXCEPT ![t] = "parse"]
    /\ UNCHANGED <<titleFrame, chat_name>>

\* Lines 276-283: the structured call returns a parsed title.
TitleParsed(t, emoji, title) ==
    /\ title_pc[t] = "parse"
    /\ title_new' = [title_new EXCEPT ![t] = ParsedTitle(emoji, title)]
    /\ title_pc' = [title_pc EXCEPT ![t] = "write"]
    /\ UNCHANGED <<titleFrame, chat_name, title_log>>

\* Lines 276-281: the structured call returns, response.parsed is None.
TitleUnparsed(t) ==
    /\ title_pc[t] = "parse"
    /\ title_log' = [title_log EXCEPT ![t].unparsed = TRUE]
    /\ title_pc' = [title_pc EXCEPT ![t] = "write"]
    /\ UNCHANGED <<titleFrame, chat_name, title_new>>

\* Lines 284-286: the structured call raises; the plain completion is made.
TitleParseRaises(t) ==
    /\ title_pc[t] = "parse"
    /\ title_log' = [title_log EXCEPT ![t].parse_raised = TRUE, ![t].create_calls = @ + 1]
    /\ title_pc' = [title_pc EXCEPT ![t] = "create"]
    /\ UNCHANGED <<titleFrame, chat_name, title_new>>

\* Lines 286-287: the plain completion returns.
TitleCreated(t, c) ==
    /\ title_pc[t] = "create"
    /\ title_new' = [title_new EXCEPT ![t] = PyStr(c)]
    /\ title_log' = [title_log EXCEPT ![t].raw = PyStr(c)]
    /\ title_pc' = [title_pc EXCEPT ![t] = "write"]
    /\ UNCHANGED <<titleFrame, chat_name>>

\* Lines 288-289: the plain completion raises; the error is logged.
TitleCreateRaises(t) ==
    /\ title_pc[t] = "create"
    /\ title_log' = [title_log EXCEPT ![t].create_raised = TRUE]
    /\ title_pc' = [title_pc EXCEPT ![t] = "write"]
    /\ UNCHANGED <<titleFrame, chat_name, title_new>>

titleWriteFrame == <<instanceVars, catalogVars, container, title_tasks, uuid_counter, pc, bot_index,
                     messages, content, finished, generate_flag, message_response,
                     tool_calls, call_idx, response_text, attachments, dialogs,
                     requests, chunk_no, log>>

\* A final write that also marks the chat idle.
RowEditBusyCleared(b) == FALSE

\* Line 296: chat.row.edit is given the name only; chat.busy stays as it is.
RowEditBusy(b) == b

\* Lines 291-296: the title is cleaned, cut and written as the chat's name.
TitleWrite(t) ==
    /\ title_pc[t] = "write"
    /\ chat_name' = FinalTitle(title_new[t])
    /\ title_new' = [title_new EXCEPT ![t] = FinalTitle(@)]
    /\ title_log' = [title_log EXCEPT ![t].before_write = chat_name, ![t].wrote = TRUE,
                                      ![t].clean = Strip(ReSubThink(title_new[t], 1))]
    /\ title_pc' = [title_pc EXCEPT ![t] = "ended"]
    /\ busy' = RowEditBusy(busy)
    /\ UNCHANGED titleWriteFrame

TitleStep(t) ==
    \/ TitleBegin(t)
    \/ \E e \in Emojis, x \in TitleTexts : TitleParsed(t, e, x)
    \/ TitleUnparsed(t)
    \/ TitleParseRaises(t)
    \/ \E c \in PlainContents : TitleCreated(t, c)
    \/ TitleCreateRaises(t)
    \/ TitleWrite(t)

\* The user gives the chat a name of their own.
RenameChat ==
    /\ chat_id
    /\ chat_name # "Trip plan"
    /\ chat_name' = "Trip plan"
    /\ UNCHANGED <<titleFrame, titleVars>>

\* A chat with one of the names chats are created with or a name of the
\* user's, new or with an earlier exchange.
InitTitle ==
    /\ limitations \in SUBSET {"no-system-messages"}
    /\ instance_type = "openai"
    /\ properties = InstanceInit(limitations, DefaultProperties)
    /\ chat_id \in BOOLEAN
    /\ chat_name \in PlaceholderNames \cup {"Trip plan"}
    /\ container \in TurnHistories
    /\ InitTurns
    /\ InitCatalog

\* The sends of a conversation with their title threads; the generations
\* themselves are left where generate_response is called.
NextTitle ==
    \/ \E t \in Turns : SendMessage(t)
    \/ \E t \in Turns : GenerateMessage(t)
    \/ \E t \in Turns : TitleStep(t)
    \/ RenameChat

SpecTitle == InitTitle /\ [][NextTitle]_vars

\* One turn of a conversation with its title thread, both running to their
\* end side by side.
NextTitleTurn ==
    \/ \E t \in Turns : t = 1 /\ SendMessage(t)
    \/ \E t \in Turns : GenerateMessage(t)
    \/ \E t \in Turns : StreamStep(t)
    \/ \E t \in Turns : TitleStep(t)
    \/ StopMessage

SpecTitleTurn == InitTitle /\ [][NextTitleTurn]_vars

\* ------------------------------------------------------ describing a tool
\* The Property objects a tool may declare: required and optional ones, and
\* two of the same name.
PropertyChoices ==
    { Property("query", "The search query", "string", TRUE),
      Property("query", "A number", "integer", FALSE),
      Property("command", "The command to run", "string", TRUE),
      Property("size", "Image size", "string", FALSE) }

\* The tools get_metadata is called on: 0..MaxProps properties.
ToolChoices ==
    { Tool(n, "Does something", ps) :
        n \in {"web_search", "generate_image"},
        ps \in UNION {[1..k -> PropertyChoices] : k \in 0..MaxProps} }

\* An instance at rest: no turn, no title thread.
InitAtRest ==
    /\ limitations = {}
    /\ instance_type = "openai"
    /\ properties = InstanceInit(limitations, DefaultProperties)
    /\ chat_id = TRUE
    /\ chat_name = "New Chat"
    /\ container = <<>>
    /\ InitTurns

InitMetadata ==
    /\ InitAtRest
    /\ tool \in ToolChoices
    /\ metadata = <<>>
    /\ local_models = <<>>
    /\ available_models = PyNone
    /\ model_log = <<>>
    /\ InitSetupDialog

\* tool.get_metadata() is called and its result kept.
DescribeTool ==
    /\ Len(metadata) < MaxDescribes
    /\ metadata' = Append(metadata, GetMetadata(tool))
    /\ tool' = [tool EXCEPT !.properties = PropertiesAfterMetadata(@)]
    /\ UNCHANGED <<instanceVars, chat_name, busy, container, title_tasks, titleVars,
                   uuid_counter, pc, bot_index, messages, content, finished, toolVars,
                   dialogs, requests, chunk_no, log, local_models, available_models,
                   model_log, setupVars>>

NextMetadata == DescribeTool

SpecMetadata == InitMetadata /\ [][NextMetadata]_vars

\* ------------------------------------------------------ the model functions
\* The names in get_local_models().
LocalNames(locals) == {locals[i] : i \in 1..Len(locals)}

\* A default that is always the first local model.
DefaultModelAlwaysFirst(cur, locals) == PyStrOf(locals[1])

\* Lines 301-304: properties["default_model"] after the check, given at
\* least one local model.
DefaultModelAfter(cur, locals) ==
    IF ~PyBool(cur) \/ cur.s \notin LocalNames(locals) THEN PyStrOf(locals[1]) ELSE cur

\* Lines 310-313: properties["title_model"] after the check, given at least
\* one local model.
TitleModelAfter(cur, locals) ==
    IF PyBool(cur) /\ cur.s \notin LocalNames(locals) THEN PyStrOf(locals[1]) ELSE cur

\* What a call leaves in model_log.
ModelCall(fn, before, after, ret) ==
    [fn |-> fn, before |-> before, after |-> after, ret |-> ret,
     locals |-> local_models, fetched |-> <<>>, raised |-> FALSE, dialog |-> FALSE]

modelFrame == <<limitations, instance_type, chat_id, chat_name, busy, container,
                title_tasks, titleVars, uuid_counter, pc, bot_index, messages, content,
                finished, toolVars, dialogs, requests, chunk_no, log, tool, metadata,
                setupVars>>

\* BaseInstance.get_default_model, lines 298-305; without a local model the
\* function returns None.
GetDefaultModel ==
    /\ Len(model_log) < MaxModelCalls
    /\ LET cur == properties.default_model
           new == IF Len(local_models) > 0 THEN DefaultModelAfter(cur, local_models) ELSE cur
           ret == IF Len(local_models) > 0 THEN new ELSE PyNone
       IN  /\ properties' = [properties EXCEPT !.default_model = new]
           /\ model_log' = Append(model_log, ModelCall("get_default_model", cur, new, ret))
    /\ UNCHANGED <<modelFrame, local_models, available_models>>

\* BaseInstance.get_title_model, lines 307-314.
GetTitleModel ==
    /\ Len(model_log) < MaxModelCalls
    /\ LET cur == properties.title_model
           new == IF Len(local_models) > 0 THEN TitleModelAfter(cur, local_models) ELSE cur
           ret == IF Len(local_models) > 0 THEN new ELSE PyNone
       IN  /\ properties' = [properties EXCEPT !.title_model = new]
           /\ model_log' = Append(model_log, ModelCall("get_title_model", cur, new, ret))
    /\ UNCHANGED <<modelFrame, local_models, available_models>>

\* The model identifiers of the instance's local list.
ModelIds == {"gpt-a", "gpt-b"}

\* The local lists an instance may have: 0..MaxModels models, each once.
LocalLists ==
    {l \in UNION {[1..k -> ModelIds] : k \in 0..MaxModels} :
        \A i, j \in 1..Len(l) : i # j => l[i] # l[j]}

\* Lines 357-359 (delete_model): the local list loses a model.
DeleteModel(i) ==
    /\ i \in 1..Len(local_models)
    /\ model_log # <<>>
    /\ local_models' = RemoveAt(local_models, i)
    /\ UNCHANGED <<modelFrame, properties, available_models, model_log>>

\* What default_model and title_model may be configured as: None, the empty
\* string, a local model, a model that was never local.
ConfiguredModels == {PyNone, PyStrOf(""), PyStrOf("gpt-a"), PyStrOf("gpt-old")}

InitModels ==
    /\ limitations = {}
    /\ instance_type = "openai"
    /\ \E d \in ConfiguredModels, tm \in ConfiguredModels :
          properties = [InstanceInit(limitations, DefaultProperties)
                           EXCEPT !.default_model = d, !.title_model = tm]
    /\ chat_id = TRUE
    /\ chat_name = "New Chat"
    /\ container = <<>>
    /\ InitTurns
    /\ tool = NoTool
    /\ metadata = <<>>
    /\ local_models \in LocalLists
    /\ available_models = PyNone
    /\ model_log = <<>>
    /\ InitSetupDialog

NextModels ==
    \/ GetDefaultModel
    \/ GetTitleModel
    \/ \E i \in 1..MaxModels : DeleteModel(i)

SpecModels == InitModels /\ [][NextModels]_vars

\* --------------------------------------------------- get_available_models
LowerChar(c) ==
    CASE c = "A" -> "a" []
      c = "B" -> "b" []
      c = "C" -> "c" []
      c = "D" -> "d" []
      c = "E" -> "e" []
      c = "F" -> "f" []
      c = "G" -> "g" []
      c = "H" -> "h" []
      c = "I" -> "i" []
      c = "J" -> "j" []
      c = "K" -> "k" []
      c = "L" -> "l" []
      c = "M" -> "m" []
      c = "N" -> "n" []
      c = "O" -> "o" []
      c = "P" -> "p" []
      c = "Q" -> "q" []
      c = "R" -> "r" []
      c = "S" -> "s" []
      c = "T" -> "t" []
      c = "U" -> "u" []
      c = "V" -> "v" []
      c = "W" -> "w" []
      c = "X" -> "x" []
      c = "Y" -> "y" []
      c = "Z" -> "z" []
      OTHER -> c

\* str.lower()
RECURSIVE Lower(_)
Lower(x) == IF x = "" THEN "" ELSE LowerChar(SubSeq(x, 1, 1)) \o Lower(SubSeq(x, 2, Len(x)))

\* sub in x
Contains(x, sub) ==
    \E i \in 1..(Len(x) - Len(sub) + 1) : SubSeq(x, i, i + Len(sub) - 1) = sub

\* Lines 323-330: the substrings of the model families that are left out.
NonChatFamilies == {"embedding", "davinci", "dall", "tts", "whisper", "image"}

\* Lines 321-322: whether BaseInstance keeps a listed model.
IsChatModel(id) == \A f \in NonChatFamilies : ~Contains(Lower(id), f)

\* available_models as a dict, by its keys.
Dict(ids) == [tag |-> "dict", ids |-> ids]

\* Line 318: "not self.available_models or len(self.available_models) == 0".
NeedsFetch(am) == am.tag # "dict" \/ am.ids = {}

\* The identifiers a provider may list.
RemoteIds == {"gpt-4o", "text-embedding-3", "DALL-E-3", "whisper-1"}

\* The answers to the listing request: 0..MaxModels models, or a failure
\* after the models in ids were handled (none when the request itself fails,
\* some when a later page or a later entry raises).
Listings ==
    {[raised |-> b, ids |-> l] :
        b \in BOOLEAN, l \in UNION {[1..k -> RemoteIds] : k \in 0..MaxModels}}

\* Lines 319-332 and 387-412: the dict built from a listing.
ListedModels(itype, ids) ==
    IF itype = "nanogpt"
    THEN {ids[i] : i \in 1..Len(ids)}
    ELSE {ids[i] : i \in {j \in 1..Len(ids) : IsChatModel(ids[j])}}

\* Lines 334-339 against 418-420: BaseInstance shows dialog.simple_error,
\* NanoGPT only logs.
ListingErrorDialog(itype) == itype # "nanogpt"

\* BaseInstance.get_available_models (lines 316-344) and
\* NanoGPT.get_available_models (lines 385-420); r is the answer to the
\* listing request, if one is made.
GetAvailableModels(r) ==
    /\ Len(model_log) < MaxModelCalls
    /\ LET call == ModelCall("get_available_models", available_models, available_models,
                             available_models)
       IN  IF ~NeedsFetch(available_models)
           THEN /\ r = [raised |-> TRUE, ids |-> <<>>]
                /\ model_log' = Append(model_log, call)
                /\ UNCHANGED available_models
           ELSE IF r.raised
           THEN /\ available_models' = Dict(ListedModels(instance_type, r.ids))
                /\ model_log' = Append(model_log,
                       [call EXCEPT !.after = Dict(ListedModels(instance_type, r.ids)),
                                    !.ret = Dict({}), !.raised = TRUE,
                                    !.fetched = r.ids,
                                    !.dialog = ListingErrorDialog(instance_type)])
           ELSE /\ available_models' = Dict(ListedModels(instance_type, r.ids))
                /\ model_log' = Append(model_log,
                       [call EXCEPT !.after = Dict(ListedModels(instance_type, r.ids)),
                                    !.ret = Dict(ListedModels(instance_type, r.ids)),
                                    !.fetched = r.ids])
    /\ UNCHANGED <<modelFrame, properties, local_models>>

InitListing ==
    /\ limitations = {}
    /\ instance_type \in {"openai", "nanogpt"}
    /\ properties = InstanceInit(limitations, DefaultProperties)
    /\ chat_id = TRUE
    /\ chat_name = "New Chat"
    /\ container = <<>>
    /\ InitTurns
    /\ InitCatalog

NextListing == \E r \in Listings : GetAvailableModels(r)

SpecListing == InitListing /\ [][NextListing]_vars

\* ------------------------------------------------ building one request
\* The messages a conversation may hand to generate_response: a system
\* message, text, an image before or after the text, an image alone.
ShapeMessageChoices ==
    { Msg("system", ListContent(<<TextBlock("rules")>>)),
      Msg("user", UserText),
      Msg("user", ListContent(<<ImageBlock, TextBlock("look")>>)),
      Msg("user", ListContent(<<TextBlock("look"), ImageBlock>>)),
      Msg("user", ListContent(<<ImageBlock>>)),
      Msg("assistant", BotText) }

\* The message lists generate_response is called with: 0..MaxMsgs messages.
ShapeInputs == UNION {[1..n -> ShapeMessageChoices] : n \in 0..MaxMsgs}

\* The generation settings an instance may be configured with.
ShapeProperties ==
    { [DefaultProperties EXCEPT !.max_tokens = m, !.override_parameters = o, !.seed = sd] :
        m \in {0, 2048}, o \in BOOLEAN, sd \in {0, 42} }

\* A provider class without settings of its own, and NanoGPT without and with
\* a system prompt, each with any of the settings.
ShapeInstances ==
    { [type |-> "openai", given |-> p] : p \in ShapeProperties }
    \cup { [type |-> "nanogpt",
            given |-> [p EXCEPT !.system_prompt = sp, !.auto_youtube_transcripts = yt,
                                !.context_memory_enabled = cm]] :
             p \in ShapeProperties, sp \in {"", "Be brief"}, yt \in BOOLEAN, cm \in BOOLEAN }

\* generate_response is about to be called for turn 1 with an input list, on
\* an instance with any limitations, the chat being busy.
InitShape ==
    /\ limitations \in SUBSET Limitations
    /\ \E i \in ShapeInstances :
          /\ instance_type = i.type
          /\ properties = InstanceInit(limitations, i.given)
    /\ chat_id = TRUE
    /\ chat_name = "New Chat"
    /\ container = <<>>
    /\ busy = TRUE
    /\ title_tasks = 0
    /\ title_pc = PerTurn("none")
    /\ title_new = PerTurn("")
    /\ title_log = PerTurn(EmptyTitleLog)
    /\ uuid_counter = 0
    /\ pc = [PerTurn("idle") EXCEPT ![1] = "gr"]
    /\ bot_index = PerTurn(0)
    /\ \E in \in ShapeInputs :
          /\ messages = [PerTurn(<<>>) EXCEPT ![1] = in]
          /\ log = [PerTurn(EmptyLog) EXCEPT ![1].base = in]
    /\ content = PerTurn(<<>>)
    /\ finished = PerTurn(FALSE)
    /\ generate_flag = PerTurn(FALSE)
    /\ message_response = PerTurn(PyStrOf(""))
    /\ tool_calls = PerTurn(<<>>)
    /\ call_idx = PerTurn(0)
    /\ response_text = PerTurn("")
    /\ attachments = PerTurn(<<>>)
    /\ dialogs = PerTurn(0)
    /\ requests = PerTurn(<<>>)
    /\ chunk_no = PerTurn(0)
    /\ InitCatalog

NextShape == \E t \in Turns : GenerateResponse(t)

SpecShape == InitShape /\ [][NextShape]_vars

\* ------------------------------------------------------- the setup wizard
\* Everything outside the wizard but generate_uuid's counter.
setupFrame == <<instanceVars, chat_name, busy, container, title_tasks, titleVars, pc,
                bot_index, messages, content, finished, generate_flag, message_response,
                tool_calls, call_idx, response_text, attachments, dialogs, requests,
                chunk_no, log, tool, metadata, local_models, available_models, model_log>>

\* The texts the user may leave in the API key entry.
SetupKeys == {"", "key-a", " key-b "}

\* How the validation request may go: status 200, another status, an
\* exception.
ValidationAnswers == {"ok", "refused", "raises"}

\* The answers to the model request of fetch_models: status 200 with
\* 0..MaxModels models, another status, or an exception after the rows of ids
\* were appended (none when the request itself raises).
FetchAnswers ==
    {[kind |-> k, ids |-> l] :
        k \in {"ok", "raises"}, l \in UNION {[1..n -> ModelIds] : n \in 0..MaxModels}}
    \cup {[kind |-> "refused", ids |-> <<>>]}

\* The user edits the API key entry.
TypeApiKey(k) ==
    /\ ~closed
    /\ k # api_key_entry
    /\ api_key_entry' = k
    /\ UNCHANGED <<setupFrame, uuid_counter, validated_api_key, selected_model, model_store,
                   scheduled, test_sensitive, next_sensitive, page, instances,
                   skip_welcome, closed, setup_log>>

\* on_get_started, lines 70-72.
OnGetStarted ==
    /\ ~closed
    /\ page = "welcome"
    /\ page' = "api_key"
    /\ UNCHANGED <<setupFrame, uuid_counter, api_key_entry, validated_api_key,
                   selected_model, model_store, scheduled, test_sensitive, next_sensitive,
                   instances, skip_welcome, closed, setup_log>>

\* on_test_api_key, lines 75-88: an empty key only changes the status label;
\* otherwise the button is disabled and validate_api_key(api_key) scheduled.
OnTestApiKey ==
    /\ ~closed
    /\ test_sensitive
    /\ LET api_key == Strip(api_key_entry)
       IN  IF api_key = ""
           THEN UNCHANGED <<test_sensitive, scheduled>>
           ELSE /\ test_sensitive' = FALSE
                /\ scheduled' = PyStrOf(api_key)
    /\ UNCHANGED <<setupFrame, uuid_counter, api_key_entry, validated_api_key,
                   selected_model, model_store, next_sensitive, page, instances,
                   skip_welcome, closed, setup_log>>

\* A validation that keeps the key it had when the request does not succeed.
ValidatedAfterKeepsOld(cur, key, answer) == IF answer = "ok" THEN key ELSE cur

\* Lines 100-113: validated_api_key after a validation of key.
ValidatedAfter(cur, key, answer) == IF answer = "ok" THEN key ELSE PyNone

\* validate_api_key, lines 90-119, run by the timeout of line 88.
ValidateApiKey(answer) ==
    /\ scheduled # PyNone
    /\ validated_api_key' = ValidatedAfter(validated_api_key, scheduled, answer)
    /\ next_sensitive' = CASE answer = "ok" -> TRUE
                            [] answer = "refused" -> FALSE
                            [] OTHER -> next_sensitive
    /\ test_sensitive' = TRUE
    /\ scheduled' = PyNone
    /\ setup_log' = [setup_log EXCEPT !.last = [key |-> scheduled.s, outcome |-> answer]]
    /\ UNCHANGED <<setupFrame, uuid_counter, api_key_entry, selected_model, model_store,
                   page, instances, skip_welcome, closed>>

\* on_next_to_model and fetch_models, lines 121-170.  With status 200 the
\* store is refilled and the first row selected, which on_model_selected
\* (lines 172-177) records; an exception after some rows leaves those rows,
\* selected or not, and shows the error dialog.
OnNextToModel(f) ==
    /\ ~closed
    /\ IF ~PyBool(validated_api_key)
       THEN /\ f.kind = "refused"
            /\ UNCHANGED <<page, model_store, selected_model, setup_log>>
       ELSE /\ page' = "model"
            /\ CASE f.kind = "ok" ->
                       /\ model_store' = f.ids
                       /\ selected_model' =
                              IF f.ids # <<>> THEN PyStrOf(f.ids[1]) ELSE selected_model
                       /\ UNCHANGED setup_log
                 [] f.kind = "raises" ->
                       /\ model_store' = IF f.ids # <<>> THEN f.ids ELSE model_store
                       /\ selected_model' \in
                              {selected_model}
                              \cup (IF f.ids # <<>> THEN {PyStrOf(f.ids[1])} ELSE {})
                       /\ setup_log' = [setup_log EXCEPT !.fetch_error = TRUE]
                 [] OTHER -> UNCHANGED <<model_store, selected_model, setup_log>>
    /\ UNCHANGED <<setupFrame, uuid_counter, api_key_entry, validated_api_key, scheduled,
                   test_sensitive, next_sensitive, instances, skip_welcome, closed>>

\* on_model_selected, lines 172-177: the user picks row i of the dropdown.
OnModelSelected(i) ==
    /\ ~closed
    /\ i \in 1..Len(model_store)
    /\ selected_model' = PyStrOf(model_store[i])
    /\ UNCHANGED <<setupFrame, uuid_counter, api_key_entry, validated_api_key, model_store,
                   scheduled, test_sensitive, next_sensitive, page, instances,
                   skip_welcome, closed, setup_log>>

\* on_finish_setup, lines 179-212: nothing without a validated key and a
\* selected model; otherwise the instance is written, setup marked complete
\* and the dialog closed.
OnFinishSetup ==
    /\ ~closed
    /\ IF ~PyBool(validated_api_key) \/ ~PyBool(selected_model)
       THEN UNCHANGED <<uuid_counter, instances, skip_welcome, closed, setup_log>>
       ELSE /\ uuid_counter' = uuid_counter + 1
            /\ instances' = Append(instances,
                   [instance_id |-> uuid_counter + 1, instance_type |-> "nanogpt",
                    api |-> validated_api_key.s, default_model |-> selected_model.s,
                    model_list |-> <<selected_model.s>>])
            /\ skip_welcome' = TRUE
            /\ closed' = TRUE
            /\ setup_log' = [setup_log EXCEPT !.at_finish = setup_log.last]
    /\ UNCHANGED <<setupFrame, api_key_entry, validated_api_key, selected_model,
                   model_store, scheduled, test_sensitive, next_sensitive, page>>

InitSetup ==
    /\ InitAtRest
    /\ InitCatalog

NextSetup ==
    \/ \E k \in SetupKeys : TypeApiKey(k)
    \/ OnGetStarted
    \/ OnTestApiKey
    \/ \E a \in ValidationAnswers : ValidateApiKey(a)
    \/ \E f \in FetchAnswers : OnNextToModel(f)
    \/ \E i \in 1..MaxModels : OnModelSelected(i)
    \/ OnFinishSetup

SpecSetup == InitSetup /\ [][NextSetup]_vars

\* ----------------------------------------------------------------- claims
Running(t) == pc[t] \notin {"idle", "done", "dead"}

Ended(t) == pc[t] \in {"done", "dead"}

\* C1: at no reachable state are two generations in flight for the same
\* conversation (a send while the chat is busy is rejected or queued).
C1_OneGenerationInFlight ==
    Cardinality({t \in Turns : Running(t)}) <= 1

\* C2: every turn finalizes its target message on every path: a turn whose
\* thread has ended has had finish_generation called on its message.
C2_EveryTurnFinalizes ==
    \A t \in Turns : Ended(t) => finished[t]

IsPrefix(a, b) == Len(a) <= Len(b) /\ SubSeq(b, 1, Len(a)) = a

\* C3 as stated: once busy has become false during a streamed generation, no
\* further increment is appended, and the finalized content is the content
\* at the flip.
C3_NoIncrementAfterFlip ==
    \A t \in Turns :
        log[t].flip_seen =>
            /\ log[t].flip_extra = 0
            /\ finished[t] => content[t] = log[t].flip_content

\* C3 as amended: while busy stays false after the flip, at most one further
\* increment is appended (the loop looks at the flag only after a chunk), and
\* the content, also when finalized, is the content at the flip followed by
\* at most that one increment.
C3_AtMostOneIncrementAfterFlip ==
    \A t \in Turns :
        (log[t].flip_seen /\ ~log[t].rearmed) =>
            /\ log[t].flip_extra <= 1
            /\ IsPrefix(log[t].flip_content, content[t])
            /\ Len(content[t]) = Len(log[t].flip_content) + log[t].flip_extra

\* A generation that was cut by the flag after one more increment, finalized.
C3_Witness ==
    \E t \in Turns :
        /\ log[t].flip_seen /\ ~log[t].rearmed
        /\ log[t].flip_extra = 1
        /\ finished[t]
        /\ chunk_no[t] < MaxChunks

\* The turn went through a response with tool calls and its loop is over.
BatchOver(t) == tool_calls[t] # <<>> /\ pc[t] # "calls"

\* C4: for every tool-call batch the number of role=tool messages appended
\* equals the number of tool calls, and the i-th appended message carries the
\* identifier of the i-th call, also when a tool is unknown or raises.
C4_OneToolMessagePerCall ==
    \A t \in Turns :
        BatchOver(t) =>
            /\ Len(log[t].appended) = Len(tool_calls[t])
            /\ \A i \in 1..Len(log[t].appended) :
                  /\ log[t].appended[i].role = "tool"
                  /\ log[t].appended[i].tool_call_id = tool_calls[t][i].id

\* C5: an exception raised while executing one tool call is handled per call:
\* the loop body is still entered for every call of the batch.
C5_SiblingCallsStillRun ==
    \A t \in Turns :
        BatchOver(t) => log[t].ran = [i \in 1..Len(tool_calls[t]) |-> i]

IsToolMsg(m) == m.role = "tool"

\* C6: whenever the follow-up streamed request is issued after a tool batch,
\* its message list holds, for every call of the response and in call order, a
\* role=tool message with the call's identifier and the tool's detailed body.
C6_ToolResultsBeforeFollowUp ==
    \A t \in Turns :
        (tool_calls[t] # <<>> /\ pc[t] = "wait_stream") =>
            LET sent == SelectSeq(requests[t][Len(requests[t])].messages, IsToolMsg)
            IN  /\ Len(sent) = Len(tool_calls[t])
                /\ Len(log[t].details) = Len(tool_calls[t])
                /\ \A i \in 1..Len(sent) :
                      /\ sent[i].tool_call_id = tool_calls[t][i].id
                      /\ sent[i].content = StrContent(log[t].details[i])

\* The non-streamed completion came back without tool calls.
PlainResponse(t) == response_text[t] # ""

Summaries(t) == SelectSeq(log[t].returned, PyBool)

\* C8: when generation is suppressed after a tool batch, the final visible
\* content is the summary of the last call that returned a non-empty summary,
\* whatever later calls returned.
C8_LastSummaryWins ==
    \A t \in Turns :
        (BatchOver(t) /\ finished[t] /\ ~log[t].entered /\ Summaries(t) # <<>>) =>
            content[t] = <<Summaries(t)[Len(Summaries(t))].s>>

\* The decision of lines 190-194 has been taken.
Decided(t) == pc[t] \in {"gr", "wait_stream", "recv", "check", "finish", "done", "dead"}

\* C9: with generate_message true, the follow-up generation is suppressed if
\* and only if a call of the batch returned a non-empty summary: the flag is
\* false exactly when one did (so no later call re-enables it), and once
\* decided, generate_response is entered exactly when none did.
C9_SuppressedIffSummary ==
    \A t \in Turns :
        (log[t].param /\ pc[t] \notin {"idle", "ut", "wait_completion"}) =>
            /\ generate_flag[t] = (Summaries(t) = <<>>)
            /\ pc[t] = "gr" => Summaries(t) = <<>>
            /\ (Decided(t) /\ pc[t] # "gr") => (log[t].entered = (Summaries(t) = <<>>))

\* A batch whose first call returned a summary and whose second returned
\* none: the turn ended without a follow-up.
C9_Witness ==
    \E t \in Turns :
        /\ log[t].param
        /\ Len(log[t].returned) = 2
        /\ PyBool(log[t].returned[1]) /\ ~PyBool(log[t].returned[2])
        /\ finished[t] /\ ~log[t].entered

\* C10: a call naming a tool that is not in the registry gives an empty tool
\* result: a role=tool message with its identifier and empty content is
\* appended, dispatch goes on to the next call, no attachment is created for
\* it, and no exception is raised by it.
C10_UnknownToolGivesEmptyResult ==
    \A t \in Turns :
        \A k \in 1..Len(log[t].ran) :
            LET i == log[t].ran[k]
                call == tool_calls[t][i]
            IN  call.name \notin AvailableTools =>
                    /\ \E j \in 1..Len(log[t].appended) :
                          log[t].appended[j] = ToolMsg(call.id, "")
                    /\ i < Len(tool_calls[t]) =>
                          \/ pc[t] = "calls" /\ call_idx[t] = i + 1
                          \/ \E n \in 1..Len(log[t].ran) : log[t].ran[n] = i + 1
                    /\ \A a \in 1..Len(attachments[t]) : attachments[t][a].name # call.name

\* C11: the busy flag is set before a network call of a turn is issued: every
\* step that issues a completion request of a turn (the streamed one or the
\* non-streamed tool-enabled one) leaves the conversation's busy flag true.
C11_BusyWhenRequestIssued ==
    [][\A t \in Turns : Len(requests'[t]) > Len(requests[t]) => busy']_vars

\* C12: when opening or consuming the stream raises, generate_response
\* catches the exception, shows the error dialog exactly once, and goes on to
\* finalize the target message with every delta that was appended before the
\* exception; the exception does not leave generate_response.
C12_StreamErrorIsReportedAndFinalized ==
    \A t \in Turns :
        log[t].stream_raised =>
            /\ dialogs[t] = log[t].raise_dialogs + 1
            /\ content[t] = log[t].raise_content
            /\ ~log[t].escaped
            /\ pc[t] \in {"finish", "done"}
            /\ pc[t] = "done" => finished[t]

\* A stream that raised after its first delta, finalized with that delta.
C12_Witness ==
    \E t \in Turns :
        /\ log[t].stream_raised
        /\ log[t].raise_content = <<DeltaText(1)>>
        /\ finished[t]

\* The streamed request of turn t has just been issued.
Issued(t) == pc[t] = "wait_stream"

LastRequest(t) == requests[t][Len(requests[t])]

\* C13 as stated: with "no-system-messages", the request built by
\* generate_response holds no message with role system, every message of the
\* input list that had role system is at the same position with role user
\* and identical content, and all other messages are unchanged.
C13_SystemBecomesUserInPlace ==
    \A t \in Turns :
        ("no-system-messages" \in limitations /\ Issued(t)) =>
            LET sent == LastRequest(t).messages
                in == log[t].base
            IN  /\ Len(sent) = Len(in)
                /\ \A i \in 1..Len(sent) :
                      /\ sent[i].role # "system"
                      /\ sent[i] = IF in[i].role = "system"
                                   THEN [in[i] EXCEPT !.role = "user"] ELSE in[i]

\* C13 as amended: with "no-system-messages", a request that is built holds
\* no message with role system; against the list BaseInstance.generate_response
\* is entered with (the input list, on a NanoGPT instance with a system prompt
\* preceded by that prompt as a system message) it has the same length, at
\* every position the role user where the role was system and the same role
\* otherwise, and, unless "text-only" is set as well, the same content.
C13_SystemBecomesUserAsEntered ==
    \A t \in Turns :
        ("no-system-messages" \in limitations /\ Issued(t)) =>
            LET sent == LastRequest(t).messages
                in == EnteredMessages(log[t].base)
            IN  /\ Len(sent) = Len(in)
                /\ \A i \in 1..Len(sent) :
                      /\ sent[i].role # "system"
                      /\ sent[i].role = IF in[i].role = "system" THEN "user" ELSE in[i].role
                      /\ "text-only" \notin limitations => sent[i].content = in[i].content

\* A request built on a NanoGPT instance with a system prompt from a list whose
\* second message is a system message.
C13_Witness ==
    \E t \in Turns :
        /\ "no-system-messages" \in limitations /\ "text-only" \notin limitations
        /\ Issued(t)
        /\ properties.system_prompt # ""
        /\ Len(log[t].base) = 2
        /\ log[t].base[2].role = "system"
        /\ LastRequest(t).messages[3].role = "user"

\* C14: with "text-only", for every input message list building the request
\* does not raise, and every message of the built request has a plain-string
\* content (no content block, so no non-text block, is left).
C14_TextOnlyGivesPlainStrings ==
    \A t \in Turns :
        ("text-only" \in limitations /\ log[t].entered) =>
            /\ ~log[t].escaped
            /\ Issued(t) =>
                  \A i \in 1..Len(LastRequest(t).messages) :
                      LastRequest(t).messages[i].content.kind = "str"

\* C15: with "no-seed", the built request never contains a seed field,
\* whatever seed was configured and whether or not overrides are enabled.
C15_NoSeedNeverSendsSeed ==
    \A t \in Turns :
        ("no-seed" \in limitations /\ Issued(t)) => "seed" \notin LastRequest(t).keys

\* A request built with "no-seed", a configured seed of 42 and overrides on.
C15_Witness ==
    \E t \in Turns :
        /\ "no-seed" \in limitations
        /\ properties.seed = 42 /\ properties.override_parameters
        /\ Issued(t)
        /\ "temperature" \in LastRequest(t).keys

\* C16: the built request contains max_completion_tokens exactly when the
\* configured max_tokens is positive and "use_max_completion_tokens" is set,
\* max_tokens exactly when it is positive and the limitation is not set,
\* neither when it is 0, and never both.
C16_TokenLimitField ==
    \A t \in Turns :
        Issued(t) =>
            LET keys == LastRequest(t).keys
                positive == properties.max_tokens > 0
                renamed == "use_max_completion_tokens" \in limitations
            IN  /\ ("max_completion_tokens" \in keys) = (positive /\ renamed)
                /\ ("max_tokens" \in keys) = (positive /\ ~renamed)
                /\ ~("max_completion_tokens" \in keys /\ "max_tokens" \in keys)
                /\ positive => LastRequest(t).max_tokens = properties.max_tokens

\* A request without a token limit (max_tokens 0) on an instance that would
\* rename the field.
C16_Witness ==
    \E t \in Turns :
        /\ Issued(t)
        /\ properties.max_tokens = 0
        /\ "use_max_completion_tokens" \in limitations
        /\ LastRequest(t).keys \cap {"max_tokens", "max_completion_tokens"} = {}

NoAssistant(msgs) == \A i \in 1..Len(msgs) : msgs[i].role # "assistant"

\* The turns whose thread started a title thread.
TitleStarters == {t \in Turns : title_pc[t] # "none"}

\* C17 as stated: the title thread is started exactly once per conversation:
\* by the first send into a conversation with zero assistant turns whose name
\* starts with the placeholder, and by no later send.
C17_TitleStartedOnFirstSend ==
    /\ title_tasks <= 1
    /\ title_tasks = Cardinality(TitleStarters)
    /\ \A t \in Turns :
          pc[t] \notin {"idle", "gm"} =>
              (t \in TitleStarters) =
                  (NoAssistant(log[t].base) /\ StartsWith(title_log[t].seen_name, "New Chat"))

\* C17 as amended: the title thread is started at most once per conversation:
\* by the first send into a conversation that has a chat_id, zero assistant
\* turns and a name that starts with the placeholder, and by no other send (a
\* later send finds the earlier bot message among its messages).
C17_TitleStartedOnFirstSendWithId ==
    /\ title_tasks <= 1
    /\ title_tasks = Cardinality(TitleStarters)
    /\ \A t \in Turns :
          pc[t] \notin {"idle", "gm"} =>
              /\ (t \in TitleStarters) =
                    /\ chat_id
                    /\ NoAssistant(log[t].base)
                    /\ StartsWith(title_log[t].seen_name, "New Chat")
              /\ t > 1 => t \notin TitleStarters

\* A second send into a chat whose name is still the placeholder after the
\* first send's title thread has ended: no second title thread.
C17_Witness ==
    /\ title_tasks = 1
    /\ title_pc[1] = "ended"
    /\ pc[2] = "gr"
    /\ StartsWith(title_log[2].seen_name, "New Chat")
    /\ title_pc[2] = "none"

\* The title thread of turn t has made its final write.
TitleEnded(t) == title_pc[t] = "ended"

\* C18: when the title summarizer fails (the structured call and the plain
\* completion both raise), the task does not change the conversation's name:
\* the name it leaves is the name the conversation had just before the task's
\* final write, also when the name was changed while the task was running.
C18_FailedTitleLeavesName ==
    \A t \in Turns :
        (TitleEnded(t) /\ title_log[t].create_raised) =>
            title_new[t] = title_log[t].before_write

\* C19: whenever the structured title call raises or returns without a
\* parsed result, the summarizer makes exactly one plain completion, and the
\* name it writes is that completion's text (as it is when the text has at
\* most 30 characters and no think span).
C19_UnparsedTitleRetriesOnce ==
    \A t \in Turns :
        (TitleEnded(t) /\ (title_log[t].parse_raised \/ title_log[t].unparsed)) =>
            /\ title_log[t].create_calls = 1
            /\ (/\ ~title_log[t].create_raised
                /\ Len(title_log[t].raw) <= TitleLimit
                /\ ReSubThink(title_log[t].raw, 1) = title_log[t].raw)
               => title_new[t] = title_log[t].raw

\* C20 as stated: the name the summarizer applies has at most 33 characters:
\* a title longer than 30 characters is cut to its first 30 characters
\* followed by an ellipsis, a title of at most 30 characters is applied
\* unchanged.
C20_TitleCutToThirty ==
    \A t \in Turns :
        TitleEnded(t) =>
            LET c == title_log[t].clean
                n == title_new[t]
            IN  /\ Len(n) <= TitleLimit + 3
                /\ Len(c) > TitleLimit => n = SubSeq(c, 1, TitleLimit) \o "..."
                /\ Len(c) <= TitleLimit => n = c

\* C20 as amended: the name applied has at most 33 characters: a title longer
\* than 30 characters is cut to its first 30 characters, the whitespace at
\* the end of that cut is dropped, and "..." is appended; a title of at most
\* 30 characters is applied unchanged.
C20_TitleCutAndTrimmed ==
    \A t \in Turns :
        TitleEnded(t) =>
            LET c == title_log[t].clean
                n == title_new[t]
            IN  /\ Len(n) <= TitleLimit + 3
                /\ Len(c) > TitleLimit =>
                      \E k \in 1..TitleLimit :
                          /\ n = SubSeq(c, 1, k) \o "..."
                          /\ ~IsSpace(SubSeq(c, k, k))
                          /\ \A j \in (k + 1)..TitleLimit : IsSpace(SubSeq(c, j, j))
                /\ Len(c) <= TitleLimit => n = c

\* A title of more than 30 characters whose 30th character is a space: the
\* name applied has 29 characters and the three dots.
C20_Witness ==
    \E t \in Turns :
        /\ TitleEnded(t)
        /\ Len(title_log[t].clean) > TitleLimit
        /\ IsSpace(SubSeq(title_log[t].clean, TitleLimit, TitleLimit))
        /\ Len(title_new[t]) = TitleLimit + 2

CallsWithLocals(fn) ==
    {i \in 1..Len(model_log) : model_log[i].fn = fn /\ model_log[i].locals # <<>>}

\* C23: get_default_model, with at least one local model, returns the
\* configured default if it is among the local models; otherwise it returns
\* the first local model and records it as the configured default, so that a
\* second call (the local list unchanged) returns the same model.
C23_DefaultModelFallback ==
    \A i \in CallsWithLocals("get_default_model") :
        LET c == model_log[i]
            valid == c.before.tag = "str" /\ c.before.s \in LocalNames(c.locals)
        IN  /\ c.ret = IF valid THEN c.before ELSE PyStrOf(c.locals[1])
            /\ c.after = c.ret
            /\ (i + 1 \in CallsWithLocals("get_default_model")
                    /\ model_log[i + 1].locals = c.locals)
               => model_log[i + 1].ret = c.ret

\* A call that fell back to the first local model, followed by a call that
\* returned the same model.
C23_Witness ==
    \E i \in CallsWithLocals("get_default_model") :
        /\ model_log[i].before # model_log[i].ret
        /\ PyBool(model_log[i].before)
        /\ i + 1 \in CallsWithLocals("get_default_model")
        /\ model_log[i + 1].ret = model_log[i].ret
        /\ Len(model_log[i].locals) = 2

\* C24: get_title_model, with at least one local model, falls back to the
\* first local model when the configured title model is unset and when it is
\* not among the local models, and records that fallback.
C24_TitleModelFallback ==
    \A i \in CallsWithLocals("get_title_model") :
        LET c == model_log[i]
            valid == c.before.tag = "str" /\ c.before.s \in LocalNames(c.locals)
        IN  ~valid => (c.ret = PyStrOf(c.locals[1]) /\ c.after = c.ret)

\* The calls of get_available_models made so far.
ListingCalls == {i \in 1..Len(model_log) : model_log[i].fn = "get_available_models"}

\* C25: on every instance type, the model list get_available_models returns
\* holds no model whose identifier contains a non-chat family substring
\* (embedding, davinci, dall, tts, whisper, image).
C25_NoNonChatModels ==
    \A i \in ListingCalls :
        \A id \in model_log[i].ret.ids :
            \A f \in NonChatFamilies : ~Contains(Lower(id), f)

\* C26: on every instance type, a failure of the listing request is caught
\* inside get_available_models, which returns an empty list and shows an
\* error dialog.
C26_ListingFailureShown ==
    \A i \in ListingCalls :
        model_log[i].raised => (model_log[i].ret = Dict({}) /\ model_log[i].dialog)

\* C27: a tool backend call degrades to a textual error result: when the
\* balance request of the CheckBalance tool fails, the detail string the tool
\* returns reports an error and not a balance amount.
C27_FailedBalanceReportsError ==
    \A t \in Turns :
        \A k \in 1..Len(log[t].details) :
            log[t].failed[k] =>
                /\ StartsWith(log[t].details[k], "Error")
                /\ ~Contains(log[t].details[k], "Balance:")

\* The place of ran call k among the calls of turn t whose run was entered.
RunIndex(t, k) ==
    Cardinality({j \in 1..k : tool_calls[t][log[t].ran[j]].name \in AvailableTools})

\* C28: a registered tool invoked with a required argument missing, or on an
\* instance that does not support it, returns a pair with a non-empty summary
\* and raises no exception.
C28_UserErrorsAreReturned ==
    \A t \in Turns :
        \A k \in 1..Len(log[t].ran) :
            LET call == tool_calls[t][log[t].ran[k]]
                missing == RequiredArguments(call.name) \ ArgumentKeys(call.arguments) # {}
                unsupported == call.name \in NeedsNanoGPT /\ instance_type # "nanogpt"
            IN  (call.name \in AvailableTools /\ (missing \/ unsupported)) =>
                    /\ RunIndex(t, k) <= Len(log[t].returned)
                    /\ PyBool(log[t].returned[RunIndex(t, k)])

\* C29: every call that names a registered tool and whose run returned has
\* exactly one attachment of type tool on the target message, its file_id was
\* generated before it was stored, and no two attachments share a file_id.
C29_OneAttachmentPerReturnedCall ==
    /\ \A t \in Turns :
          /\ Len(attachments[t]) = Len(log[t].returned)
          /\ \A k \in 1..Len(attachments[t]) :
                /\ attachments[t][k].type = "tool"
                /\ attachments[t][k].file_id \in 1..uuid_counter
    /\ \A t, u \in Turns :
          \A j \in 1..Len(attachments[t]) : \A k \in 1..Len(attachments[u]) :
              attachments[t][j].file_id = attachments[u][k].file_id => (t = u /\ j = k)

\* x holds a span that opens with <think> and closes with </think>.
HasThinkSpan(x) ==
    \E i \in 1..Len(x) : \E j \in (i + 7)..Len(x) :
        /\ i + 6 <= Len(x) /\ SubSeq(x, i, i + 6) = "<think>"
        /\ j + 7 <= Len(x) /\ SubSeq(x, j, j + 7) = "</think>"

\* C30: the title the summarizer applies contains no <think>...</think>
\* span, whether the body of the span is on one line or on several.
C30_NoThinkSpanInTitle ==
    \A t \in Turns : title_log[t].wrote => ~HasThinkSpan(title_new[t])

\* C31 as stated: the built request contains temperature exactly when the
\* parameter overrides are enabled, and seed exactly when they are enabled
\* and the configured seed is not 0.
C31_OverridesSetTemperatureAndSeed ==
    \A t \in Turns :
        Issued(t) =>
            LET keys == LastRequest(t).keys
            IN  /\ ("temperature" \in keys) = properties.override_parameters
                /\ ("seed" \in keys) =
                      (properties.override_parameters /\ properties.seed # 0)

\* C31 as amended: the built request contains temperature, with the
\* configured value, exactly when the parameter overrides are enabled, and
\* seed, with the configured value, exactly when they are enabled, the
\* configured seed is not 0 and the instance does not have "no-seed".
C31_OverridesUnlessNoSeed ==
    \A t \in Turns :
        Issued(t) =>
            LET keys == LastRequest(t).keys
            IN  /\ ("temperature" \in keys) = properties.override_parameters
                /\ "temperature" \in keys =>
                      LastRequest(t).temperature = properties.temperature
                /\ ("seed" \in keys) =
                      (/\ properties.override_parameters
                       /\ properties.seed # 0
                       /\ "no-seed" \notin limitations)
                /\ "seed" \in keys => LastRequest(t).seed = properties.seed

\* A request built with a configured seed of 42 and the overrides off: it
\* has neither temperature nor seed.
C31_Witness ==
    \E t \in Turns :
        /\ Issued(t)
        /\ properties.seed = 42 /\ ~properties.override_parameters
        /\ "no-seed" \notin limitations
        /\ LastRequest(t).keys \cap {"temperature", "seed"} = {}

\* C32: use_tools calls each registered tool with the parsed argument object
\* of the call (the decoded mapping, not the JSON string), with the working
\* message history and with the target message.
C32_RunGetsParsedArguments ==
    \A t \in Turns :
        \A k \in 1..Len(log[t].passed) :
            /\ log[t].passed[k].arguments.kind = "dict"
            /\ log[t].passed[k].target = t
            /\ Len(log[t].passed[k].messages) >= Len(log[t].base)

\* C33: when the busy flag is already false as generate_response reaches the
\* streaming step, no streamed request is issued, the content of the target
\* message is neither cleared nor appended to, and the message is still
\* finalized.
C33_CancelledBeforeStreamIsFinalized ==
    \A t \in Turns :
        log[t].skipped =>
            /\ Len(requests[t]) = log[t].skip_requests
            /\ content[t] = log[t].skip_content
            /\ pc[t] \in {"finish", "done"}
            /\ pc[t] = "done" => finished[t]

\* A turn stopped while its tools ran: the follow-up generation was entered
\* with busy false, and the message was finalized with the one request of
\* use_tools issued.
C33_Witness ==
    \E t \in Turns :
        /\ log[t].skipped
        /\ Len(log[t].ran) > 0
        /\ Len(requests[t]) = 1 /\ ~requests[t][1].stream
        /\ finished[t]

\* C34: the non-streamed request of use_tools is shaped like the streamed
\* request generate_response builds for the same instance and messages: the
\* same transformed messages (system prompt, system-to-user, text-only), the
\* same token limit and the same parameter overrides.
C34_ToolRequestShapedAlike ==
    \A t \in Turns :
        \A k \in 1..Len(requests[t]) :
            ~requests[t][k].stream =>
                LET shaped == ShapeMessages(limitations, EnteredMessages(log[t].base))
                    ref == BuildParams(limitations, properties, shaped.messages, ModelName)
                IN  /\ requests[t][k].keys \ {"tools"} = ref.keys \ {"stream"}
                    /\ requests[t][k].messages = ref.messages

\* C35: on a NanoGPT instance the streamed request that is sent reflects the
\* NanoGPT settings: with context_memory_enabled its model id is
\* "<model>:memory-<days>", with auto_youtube_transcripts it carries
\* youtube_transcripts, and with a system prompt its first message is that
\* prompt with role system, followed by the original messages in order.
C35_NanoGPTSettingsAreSent ==
    \A t \in Turns :
        (instance_type = "nanogpt" /\ Issued(t)) =>
            LET sent == LastRequest(t)
            IN  /\ properties.context_memory_enabled =>
                      sent.model = ModelName \o ":memory-"
                                       \o ToString(properties.context_memory_days)
                /\ properties.auto_youtube_transcripts =>
                      "youtube_transcripts" \in sent.keys
                /\ properties.system_prompt # "" =>
                      /\ sent.messages # <<>>
                      /\ Head(sent.messages) =
                             Msg("system", StrContent(properties.system_prompt))
                      /\ Len(sent.messages) = Len(log[t].base) + 1
                      /\ \A i \in 1..Len(log[t].base) :
                             sent.messages[i + 1].role = log[t].base[i].role

\* C36: running a tool leaves the working message history as it was: during
\* and after a batch the working list is the history prepare_chat built, in
\* its order, followed only by the role=tool messages appended.
C36_ToolsLeaveHistoryAlone ==
    \A t \in Turns :
        (tool_calls[t] # <<>> /\ pc[t] \in {"calls", "decide"}) =>
            messages[t] = log[t].base \o log[t].appended

\* C37: after a get_available_models that failed part-way through building
\* the list, the cache of the instance is empty, the next call fetches again,
\* and no later call returns the partly built cache as the model list.
C37_FailedListingLeavesNoCache ==
    \A i \in ListingCalls :
        model_log[i].raised =>
            /\ model_log[i].after = Dict({})
            /\ \A j \in ListingCalls :
                  j = i + 1 =>
                      /\ NeedsFetch(model_log[j].before)
                      /\ (model_log[j].ret = model_log[i].after) => model_log[j].ret = Dict({})

\* C38: the setup wizard writes an instance only with an API key whose most
\* recent validation request returned status 200, and with a selected model:
\* on_finish_setup writes nothing while validated_api_key is unset, and a
\* validation that is refused or raises always unsets validated_api_key.
C38_OnlyValidatedKeysArePersisted ==
    /\ [](/\ setup_log.last.outcome \in {"refused", "raises"} =>
                validated_api_key = PyNone
          /\ \A k \in 1..Len(instances) :
                /\ instances[k].api # ""
                /\ instances[k].default_model # ""
                /\ setup_log.at_finish = [key |-> instances[k].api, outcome |-> "ok"])
    /\ [][validated_api_key = PyNone => instances' = instances]_vars

\* An instance written with the key of the entry " key-b ", trimmed, and
\* with the model picked from the list, the dialog closed.
C38_Witness ==
    /\ Len(instances) = 1
    /\ instances[1].api = "key-b"
    /\ instances[1].default_model = "gpt-b"
    /\ closed

====
